---- MODULE Spec2Model ----
(***************************************************************************)
(* A model of the CCTP cross-chain transfer client of n8n-nodes-circle:    *)
(* the route and contract tables, the address validator, the attestation   *)
(* poller (fetchAttestation / waitForAttestation) and the CctpClient       *)
(* operations (constructor, initiateTransfer, getAttestation,              *)
(* completeTransfer) running against a source chain, the attestation       *)
(* service and a destination chain.                                        *)
(***************************************************************************)
EXTENDS Integers, Sequences, FiniteSets, TLC

(***************************************************************************)
(* Values standing for JavaScript's undefined and for "no value".          *)
(***************************************************************************)
Undefined == "undefined"
None == "none"

Range(s) == {s[i] : i \in DOMAIN s}

(***************************************************************************)
(* constants/domains.ts: the static route table.                           *)
(***************************************************************************)
CCTP_ROUTES ==
    ("ethereum" :> <<"avalanche", "optimism", "arbitrum", "noble", "solana", "base", "polygon">>) @@
    ("avalanche" :> <<"ethereum", "optimism", "arbitrum", "noble", "solana", "base", "polygon">>) @@
    ("optimism" :> <<"ethereum", "avalanche", "arbitrum", "noble", "solana", "base", "polygon">>) @@
    ("arbitrum" :> <<"ethereum", "avalanche", "optimism", "noble", "solana", "base", "polygon">>) @@
    ("noble" :> <<"ethereum", "avalanche", "optimism", "arbitrum", "solana", "base", "polygon">>) @@
    ("solana" :> <<"ethereum", "avalanche", "optimism", "arbitrum", "noble", "base", "polygon">>) @@
    ("base" :> <<"ethereum", "avalanche", "optimism", "arbitrum", "noble", "solana", "polygon">>) @@
    ("polygon" :> <<"ethereum", "avalanche", "optimism", "arbitrum", "noble", "solana", "base">>) @@
    ("sepolia" :> <<"fuji", "optimism-sepolia", "arbitrum-sepolia", "base-sepolia", "mumbai", "solana-devnet">>) @@
    ("fuji" :> <<"sepolia", "optimism-sepolia", "arbitrum-sepolia", "base-sepolia", "mumbai", "solana-devnet">>) @@
    ("optimism-sepolia" :> <<"sepolia", "fuji", "arbitrum-sepolia", "base-sepolia", "mumbai", "solana-devnet">>) @@
    ("arbitrum-sepolia" :> <<"sepolia", "fuji", "optimism-sepolia", "base-sepolia", "mumbai", "solana-devnet">>) @@
    ("base-sepolia" :> <<"sepolia", "fuji", "optimism-sepolia", "arbitrum-sepolia", "mumbai", "solana-devnet">>) @@
    ("mumbai" :> <<"sepolia", "fuji", "optimism-sepolia", "arbitrum-sepolia", "base-sepolia", "solana-devnet">>) @@
    ("solana-devnet" :> <<"sepolia", "fuji", "optimism-sepolia", "arbitrum-sepolia", "base-sepolia", "mumbai">>)

(***************************************************************************)
(* Property names every JavaScript object literal inherits from            *)
(* Object.prototype: table[key] yields a function for them, not undefined. *)
(***************************************************************************)
PrototypeKeys == {"constructor", "toString", "valueOf", "hasOwnProperty"}

\* The outcome of isRouteSupported(source, destination): "true", "false", or
\* "TypeError" when routes is an inherited function without an includes method.
isRouteSupported(source, destination) ==
    IF source \in DOMAIN CCTP_ROUTES
    THEN IF \E i \in DOMAIN CCTP_ROUTES[source] : CCTP_ROUTES[source][i] = destination
         THEN "true" ELSE "false"
    ELSE IF source \in PrototypeKeys THEN "TypeError" ELSE "false"

(***************************************************************************)
(* constants/contracts.ts: the networks that have an entry in each address *)
(* table as shipped.                                                       *)
(***************************************************************************)
CctpNetworks ==
    {"ethereum", "avalanche", "optimism", "arbitrum", "base", "polygon", "noble", "solana",
     "sepolia", "fuji", "optimism-sepolia", "arbitrum-sepolia", "base-sepolia", "mumbai",
     "solana-devnet"}

USDC_CONTRACTS == CctpNetworks \cup {"stellar", "near", "hedera"}

TOKEN_MESSENGER_CONTRACTS == CctpNetworks

MESSAGE_TRANSMITTER_CONTRACTS == CctpNetworks

\* constants/domains.ts: the networks that have a CCTP domain id.
CCTP_DOMAIN_IDS ==
    ("ethereum" :> 0) @@ ("avalanche" :> 1) @@ ("optimism" :> 2) @@ ("arbitrum" :> 3) @@
    ("noble" :> 4) @@ ("solana" :> 5) @@ ("base" :> 6) @@ ("polygon" :> 7) @@
    ("sepolia" :> 0) @@ ("fuji" :> 1) @@ ("optimism-sepolia" :> 2) @@
    ("arbitrum-sepolia" :> 3) @@ ("base-sepolia" :> 6) @@ ("mumbai" :> 7) @@
    ("solana-devnet" :> 5)

\* table[key] is truthy: the key has an entry, or names an inherited property.
HasAddress(table, key) == key \in table \/ key \in PrototypeKeys

(***************************************************************************)
(* utils/addressUtils.ts.  Addresses are sequences of one-character        *)
(* strings, so that the regular expressions are evaluated as written.      *)
(***************************************************************************)
Digits == {"0", "1", "2", "3", "4", "5", "6", "7", "8", "9"}
LowerChars ==
    {"a", "b", "c", "d", "e", "f", "g", "h", "i", "j", "k", "l", "m",
     "n", "o", "p", "q", "r", "s", "t", "u", "v", "w", "x", "y", "z"}
UpperChars ==
    {"A", "B", "C", "D", "E", "F", "G", "H", "I", "J", "K", "L", "M",
     "N", "O", "P", "Q", "R", "S", "T", "U", "V", "W", "X", "Y", "Z"}
HexChars == Digits \cup {"a", "b", "c", "d", "e", "f", "A", "B", "C", "D", "E", "F"}
Base58Chars == ((Digits \cup LowerChars) \cup UpperChars) \ {"0", "O", "I", "l"}
WhiteSpace == {" ", "\t", "\n"}

Rep(c, n) == [i \in 1..n |-> c]

AllIn(s, from, chars) == \A i \in from..Len(s) : s[i] \in chars

HasPrefix(s, p) == Len(s) >= Len(p) /\ \A i \in 1..Len(p) : s[i] = p[i]

\* String.prototype.trim
RECURSIVE TrimLeft(_)
TrimLeft(s) == IF s # <<>> /\ Head(s) \in WhiteSpace THEN TrimLeft(Tail(s)) ELSE s

RECURSIVE TrimRight(_)
TrimRight(s) ==
    IF s # <<>> /\ s[Len(s)] \in WhiteSpace THEN TrimRight(SubSeq(s, 1, Len(s) - 1)) ELSE s

Trim(s) == TrimRight(TrimLeft(s))

EVM_NETWORKS ==
    {"ethereum", "polygon", "arbitrum", "optimism", "base", "avalanche", "sepolia", "mumbai",
     "arbitrum-sepolia", "optimism-sepolia", "base-sepolia", "fuji"}

\* EVM_ADDRESS_REGEX = /^0x[a-fA-F0-9]{40}$/
EvmRegexTest(address) ==
    Len(address) = 42 /\ HasPrefix(address, <<"0", "x">>) /\ AllIn(address, 3, HexChars)

validateEvmChecksum(address) == EvmRegexTest(address)

validateEvmAddress(address) ==
    IF ~EvmRegexTest(address) THEN FALSE
    ELSE IF (\E i \in DOMAIN address : address[i] \in UpperChars)
            /\ (\E i \in DOMAIN address : address[i] \in LowerChars)
         THEN validateEvmChecksum(address)
         ELSE TRUE

\* SOLANA_ADDRESS_REGEX = /^[1-9A-HJ-NP-Za-km-z]{32,44}$/, then the base58 alphabet
validateSolanaAddress(address) ==
    /\ Len(address) >= 32 /\ Len(address) <= 44
    /\ AllIn(address, 1, Base58Chars)

\* STELLAR_ADDRESS_REGEX = /^G[A-Z2-7]{55}$/
validateStellarAddress(address) ==
    /\ Len(address) = 56 /\ address[1] = "G"
    /\ AllIn(address, 2, UpperChars \cup {"2", "3", "4", "5", "6", "7"})

\* NEAR_ADDRESS_REGEX = /^([a-z0-9_-]+\.)*[a-z0-9_-]+\.(near|testnet)$|^[a-f0-9]{64}$/i
NearLabelChars == ((LowerChars \cup UpperChars) \cup Digits) \cup {"_", "-"}

NearSuffixAt(s, k) ==
    \/ /\ Len(s) - k + 1 = 5
       /\ s[k] = "." /\ s[k + 1] \in {"n", "N"} /\ s[k + 2] \in {"e", "E"}
       /\ s[k + 3] \in {"a", "A"} /\ s[k + 4] \in {"r", "R"}
    \/ /\ Len(s) - k + 1 = 8
       /\ s[k] = "." /\ s[k + 1] \in {"t", "T"} /\ s[k + 2] \in {"e", "E"}
       /\ s[k + 3] \in {"s", "S"} /\ s[k + 4] \in {"t", "T"} /\ s[k + 5] \in {"n", "N"}
       /\ s[k + 6] \in {"e", "E"} /\ s[k + 7] \in {"t", "T"}

validateNearAddress(address) ==
    \/ \E k \in 2..Len(address) :
          /\ NearSuffixAt(address, k)
          /\ \A i \in 1..(k - 1) :
                /\ address[i] \in NearLabelChars \cup {"."}
                /\ address[i] = "." => (i > 1 /\ address[i - 1] # ".")
          /\ address[k - 1] # "."
    \/ Len(address) = 64 /\ AllIn(address, 1, HexChars)

\* NOBLE_ADDRESS_REGEX = /^noble[a-z0-9]{39}$/
validateNobleAddress(address) ==
    /\ Len(address) = 44 /\ HasPrefix(address, <<"n", "o", "b", "l", "e">>)
    /\ AllIn(address, 6, LowerChars \cup Digits)

\* HEDERA_ADDRESS_REGEX = /^0\.0\.\d+$/
validateHederaAddress(address) ==
    /\ Len(address) >= 5 /\ HasPrefix(address, <<"0", ".", "0", ".">>)
    /\ AllIn(address, 5, Digits)

validateAddress(address, network) ==
    IF address = <<>> THEN FALSE
    ELSE LET trimmedAddress == Trim(address) IN
         IF network \in EVM_NETWORKS THEN validateEvmAddress(trimmedAddress)
         ELSE CASE network \in {"solana", "solana-devnet"} -> validateSolanaAddress(trimmedAddress)
                [] network = "stellar" -> validateStellarAddress(trimmedAddress)
                [] network = "near" -> validateNearAddress(trimmedAddress)
                [] network = "noble" -> validateNobleAddress(trimmedAddress)
                [] network = "hedera" -> validateHederaAddress(trimmedAddress)
                [] OTHER -> validateEvmAddress(trimmedAddress)


(***************************************************************************)
(* constants/networks.ts: the networks flagged isTestnet.                  *)
(***************************************************************************)
TestnetNetworks ==
    {"sepolia", "mumbai", "arbitrum-sepolia", "optimism-sepolia", "base-sepolia", "fuji",
     "solana-devnet"}

(***************************************************************************)
(* Bounds of the model.                                                    *)
(***************************************************************************)
MaxInvocations == 3
MaxBurns == 2
MaxReceives == 2
MaxAttempts == 5
SetupInvocations == 1
ParallelInvocations == 2
MaxInstances == 2
FreshInvocations == 2

(***************************************************************************)
(* The inputs the operations are invoked with.                             *)
(***************************************************************************)
EvmAddr == <<"0", "x">> \o Rep("a", 38) \o <<"B", "9">>
ShortEvmAddr == <<"0", "x">> \o Rep("a", 39)
SolanaAddr == Rep("E", 20) \o Rep("p", 20) \o <<"j", "F", "W", "1">>
EmptyString == <<>>

AddressInputs == {EvmAddr, ShortEvmAddr, SolanaAddr, EmptyString}
AmountInputs == {<<"1", "0", "0", ".", "5", "0">>, <<"a", "b", "c">>}
CallerInputs == {EmptyString, EvmAddr}

ParamInputs ==
    [amount : AmountInputs, destinationAddress : AddressInputs, destinationCaller : CallerInputs]

SourceInputs == {"ethereum", "sepolia", "stellar", "constructor"}
DestinationInputs == {"avalanche", "solana", "fuji", "ethereum"}
RpcUrlInputs == {EmptyString, <<"h", "t", "t", "p", "s">>}

ConfigInputs ==
    [sourceNetwork : SourceInputs, destinationNetwork : DestinationInputs,
     destinationRpcUrl : RpcUrlInputs]

\* The narrower inputs of the runs that follow a transfer through all its phases.
DeepConfigs ==
    [sourceNetwork : {"ethereum", "sepolia"}, destinationNetwork : {"avalanche"},
     destinationRpcUrl : RpcUrlInputs]

DeepParams ==
    [amount : {<<"1", "0", "0", ".", "5", "0">>}, destinationAddress : {EvmAddr, ShortEvmAddr},
     destinationCaller : CallerInputs]

(***************************************************************************)
(* The state.                                                              *)
(*   registry   the key sets of the three contract address tables          *)
(*   client     the CctpClient instance, once constructed                  *)
(*   calls      per caller slot, the invocation in progress on the client, *)
(*              or the last one that ended                                 *)
(*   caller     the invocations the caller may still make, and the configs *)
(*              and parameters it invokes the client with                  *)
(*   srcChain   the burn transactions on the source chain, in order        *)
(*   attested   the messages the attestation service has signed            *)
(*   dstChain   the receiveMessage transactions on the destination chain   *)
(*   usedNonces the messages the destination contract has minted           *)
(*   completed  the messages completeTransfer reported success for         *)
(*   poll       the state of one waitForAttestation call                   *)
(*   util       one call of a function or handler that holds no state: its *)
(*              name, its arguments and, once it ran, what it gave         *)
(***************************************************************************)
VARIABLES registry, client, calls, caller, srcChain, attested, dstChain, usedNonces,
          completed, poll, util

vars == <<registry, client, calls, caller, srcChain, attested, dstChain, usedNonces,
          completed, poll, util>>

clientVarsOnly == <<registry, client, calls, caller, srcChain, attested, dstChain, usedNonces,
                    completed, poll>>

IdleUtil == [fn |-> None, args |-> <<>>, out |-> <<>>]

clientVars == <<registry, client, calls, caller, srcChain, attested, dstChain, usedNonces,
                completed, util>>

ShippedRegistry ==
    [usdc |-> USDC_CONTRACTS, tokenMessenger |-> TOKEN_MESSENGER_CONTRACTS,
     messageTransmitter |-> MESSAGE_TRANSMITTER_CONTRACTS]

(***************************************************************************)
(* parseFloat(amount) is NaN: the string has no numeric prefix.            *)
(***************************************************************************)
ParseFloatIsNaN(amount) ==
    LET s == TrimLeft(amount)
        t == IF s # <<>> /\ Head(s) \in {"+", "-"} THEN Tail(s) ELSE s
    IN ~ (/\ t # <<>>
          /\ \/ t[1] \in Digits
             \/ t[1] = "." /\ Len(t) >= 2 /\ t[2] \in Digits)

(***************************************************************************)
(* CctpClient.constructor: the route check comes first; the providers and  *)
(* wallets are created only after it passed.                               *)
(***************************************************************************)
NoClient ==
    [constructed |-> FALSE, config |-> <<>>, destinationWallet |-> FALSE,
     providers |-> 0, error |-> None, instance |-> 0]

\* A constructor that creates the providers and wallets without the route check.
CctpClientConstructorUnchecked(config) ==
    [constructed |-> TRUE, config |-> <<config>>,
     destinationWallet |-> config.destinationRpcUrl # EmptyString,
     providers |-> IF config.destinationRpcUrl # EmptyString THEN 2 ELSE 1,
     error |-> None, instance |-> 0]

CctpClientConstructor(config) ==
    LET supported == isRouteSupported(config.sourceNetwork, config.destinationNetwork) IN
    IF supported = "TypeError"
    THEN [NoClient EXCEPT !.error = "TypeError"]
    ELSE IF supported = "false"
    THEN [NoClient EXCEPT !.error = "CCTP route not supported"]
    ELSE [constructed |-> TRUE, config |-> <<config>>,
          destinationWallet |-> config.destinationRpcUrl # EmptyString,
          providers |-> IF config.destinationRpcUrl # EmptyString THEN 2 ELSE 1,
          error |-> None, instance |-> 0]

Config == client.config[1]

\* A client that never takes the testnet service.
isTestnetNever == FALSE

isTestnet == Config.sourceNetwork \in TestnetNetworks

(***************************************************************************)
(* An invocation: the operation, where it stands, the calls it has made on *)
(* a chain contract or transaction so far, and how it ended.  failedIn is  *)
(* the state its transfer was in when it raised; replay, that the message  *)
(* given to completeTransfer was already minted when it was invoked; nonce *)
(* is the wallet nonce its transaction was signed with (-1: not signed),   *)
(* instance the client instance it runs on (the n-th constructed).         *)
(***************************************************************************)
IdleCall ==
    [op |-> None, pc |-> "idle", params |-> <<>>, chainCalls |-> <<>>, tx |-> 0,
     nonce |-> -1, instance |-> 0, error |-> None, failedIn |-> None, replay |-> FALSE, result |-> <<>>]

Thrown(c, message) == [c EXCEPT !.pc = "thrown", !.error = message]

Returned(c, value) == [c EXCEPT !.pc = "returned", !.result = <<value>>]

getDestinationDomain(config) ==
    IF config.destinationNetwork \in DOMAIN CCTP_DOMAIN_IDS
    THEN CCTP_DOMAIN_IDS[config.destinationNetwork] ELSE -1

getSourceDomain(config) ==
    IF config.sourceNetwork \in DOMAIN CCTP_DOMAIN_IDS
    THEN CCTP_DOMAIN_IDS[config.sourceNetwork] ELSE -1

(***************************************************************************)
(* initiateTransfer up to its first await: the address validation, the     *)
(* address lookups, the amount conversion, and the call of the burn method *)
(* of the token messenger.                                                 *)
(***************************************************************************)
\* An initiateTransfer that goes to the burn without validating the destination.
initiateTransferStartUnvalidated(config, reg, params) ==
    LET c == [IdleCall EXCEPT !.op = "initiateTransfer", !.params = <<params>>] IN
    IF ~HasAddress(reg.usdc, config.sourceNetwork)
       \/ ~HasAddress(reg.tokenMessenger, config.sourceNetwork)
    THEN Thrown(c, "USDC or TokenMessenger not available")
    ELSE IF ParseFloatIsNaN(params.amount)
    THEN Thrown(c, "Invalid amount")
    ELSE IF params.destinationCaller # EmptyString
    THEN [c EXCEPT !.pc = "submit", !.chainCalls = <<"depositForBurnWithCaller">>]
    ELSE [c EXCEPT !.pc = "submit", !.chainCalls = <<"depositForBurn">>]

initiateTransferStart(config, reg, params) ==
    LET c == [IdleCall EXCEPT !.op = "initiateTransfer", !.params = <<params>>] IN
    IF ~validateAddress(params.destinationAddress, config.destinationNetwork)
    THEN Thrown(c, "Invalid destination address")
    ELSE IF ~HasAddress(reg.usdc, config.sourceNetwork)
            \/ ~HasAddress(reg.tokenMessenger, config.sourceNetwork)
    THEN Thrown(c, "USDC or TokenMessenger not available")
    ELSE IF ParseFloatIsNaN(params.amount)
    THEN Thrown(c, "Invalid amount")
    ELSE IF getDestinationDomain(config) = -1
    THEN Thrown(c, "Destination network not supported by CCTP")
    ELSE IF params.destinationCaller # EmptyString
    THEN [c EXCEPT !.pc = "submit", !.chainCalls = <<"depositForBurnWithCaller">>]
    ELSE [c EXCEPT !.pc = "submit", !.chainCalls = <<"depositForBurn">>]

(***************************************************************************)
(* The burn method's promise settles: with the transaction, on which       *)
(* wait() is called, or with the provider's error.                         *)
(***************************************************************************)
\* A submission that calls the burn method again when the first call failed.
initiateTransferSubmittedRetry(c, outcome, txIndex) ==
    IF outcome = "accepted"
    THEN [c EXCEPT !.pc = "wait", !.tx = txIndex, !.chainCalls = Append(@, "wait")]
    ELSE IF Len(c.chainCalls) < 2
    THEN [c EXCEPT !.chainCalls = Append(@, @[1])]
    ELSE Thrown(c, outcome)

initiateTransferSubmitted(c, outcome, txIndex) ==
    IF outcome = "accepted"
    THEN [c EXCEPT !.pc = "wait", !.tx = txIndex, !.chainCalls = Append(@, "wait")]
    ELSE Thrown(c, outcome)

(***************************************************************************)
(* findMessageBytes: the source message-transmitter address is looked up   *)
(* here, on the receipt of the confirmed burn.                             *)
(***************************************************************************)
findMessageBytes(config, reg, receipt) ==
    IF ~HasAddress(reg.messageTransmitter, config.sourceNetwork)
    THEN [error |-> "MessageTransmitter not found", message |-> 0]
    ELSE IF receipt.logs.messageSent = "transmitter"
    THEN [error |-> None, message |-> receipt.message]
    ELSE [error |-> "MessageSent event not found", message |-> 0]

\* keccak256 of the message bytes: one hash per message.
Keccak256(message) == 1000 + message

MessageOfHash(hash) == hash - 1000

(***************************************************************************)
(* initiateTransfer after wait(): a reverted burn raises; the receipt's     *)
(* logs are searched for DepositForBurn and then for MessageSent.          *)
(***************************************************************************)
\* An initiateTransfer that returns a result although no MessageSent log was found.
initiateTransferReceiptLenient(config, reg, c, receipt) ==
    IF receipt.status = 0
    THEN Thrown(c, "CALL_EXCEPTION")
    ELSE IF ~receipt.logs.depositForBurn
    THEN Thrown(c, "DepositForBurn event not found in transaction")
    ELSE LET found == findMessageBytes(config, reg, receipt) IN
         Returned(c, [messageBytes |-> found.message,
                      messageHash |-> Keccak256(found.message),
                      sourceDomain |-> getSourceDomain(config),
                      destinationDomain |-> getDestinationDomain(config),
                      success |-> TRUE])

initiateTransferReceipt(config, reg, c, receipt) ==
    IF receipt.status = 0
    THEN Thrown(c, "CALL_EXCEPTION")
    ELSE IF ~receipt.logs.depositForBurn
    THEN Thrown(c, "DepositForBurn event not found in transaction")
    ELSE LET found == findMessageBytes(config, reg, receipt) IN
         IF found.error # None
         THEN Thrown(c, found.error)
         ELSE Returned(c, [messageBytes |-> found.message,
                          messageHash |-> Keccak256(found.message),
                          sourceDomain |-> getSourceDomain(config),
                          destinationDomain |-> getDestinationDomain(config),
                          success |-> TRUE])

(***************************************************************************)
(* completeTransfer up to its first await: the destination wallet, the     *)
(* destination message-transmitter address, the call of receiveMessage.    *)
(***************************************************************************)
\* A completeTransfer that calls receiveMessage without a destination wallet.
completeTransferStartNoWalletCheck(cl, reg, params) ==
    LET c == [IdleCall EXCEPT !.op = "completeTransfer", !.params = <<params>>] IN
    IF ~HasAddress(reg.messageTransmitter, cl.config[1].destinationNetwork)
    THEN Thrown(c, "MessageTransmitter not available")
    ELSE [c EXCEPT !.pc = "submit", !.chainCalls = <<"receiveMessage">>]

\* A completeTransfer that accepts only a message this instance burned itself.
completeTransferStartOwnBurnsOnly(cl, reg, params) ==
    LET c == [IdleCall EXCEPT !.op = "completeTransfer", !.params = <<params>>] IN
    IF ~cl.destinationWallet
    THEN Thrown(c, "Destination RPC URL required to complete transfer")
    ELSE IF ~HasAddress(reg.messageTransmitter, cl.config[1].destinationNetwork)
    THEN Thrown(c, "MessageTransmitter not available")
    ELSE IF ~(/\ params.messageBytes \in DOMAIN srcChain
              /\ srcChain[params.messageBytes].instance = cl.instance)
    THEN Thrown(c, "Unknown transfer")
    ELSE [c EXCEPT !.pc = "submit", !.chainCalls = <<"receiveMessage">>]

\* A completeTransfer that looks the nonce up and refuses a used one locally.
completeTransferStartNonceCheck(cl, reg, params) ==
    LET c == [IdleCall EXCEPT !.op = "completeTransfer", !.params = <<params>>] IN
    IF ~cl.destinationWallet
    THEN Thrown(c, "Destination RPC URL required to complete transfer")
    ELSE IF ~HasAddress(reg.messageTransmitter, cl.config[1].destinationNetwork)
    THEN Thrown(c, "MessageTransmitter not available")
    ELSE IF params.messageBytes \in usedNonces
    THEN Thrown([c EXCEPT !.chainCalls = <<"usedNonces">>], "Nonce already used")
    ELSE [c EXCEPT !.pc = "submit", !.chainCalls = <<"receiveMessage">>]

completeTransferStart(cl, reg, params) ==
    LET c == [IdleCall EXCEPT !.op = "completeTransfer", !.params = <<params>>] IN
    IF ~cl.destinationWallet
    THEN Thrown(c, "Destination RPC URL required to complete transfer")
    ELSE IF ~HasAddress(reg.messageTransmitter, cl.config[1].destinationNetwork)
    THEN Thrown(c, "MessageTransmitter not available")
    ELSE [c EXCEPT !.pc = "submit", !.chainCalls = <<"receiveMessage">>]

completeTransferSubmitted(c, outcome, txIndex) ==
    IF outcome = "accepted"
    THEN [c EXCEPT !.pc = "wait", !.tx = txIndex, !.chainCalls = Append(@, "wait")]
    ELSE Thrown(c, outcome)

\* A result that reports success whatever the receipt says.
completeTransferReceiptAlwaysSuccess(c, receipt) ==
    Returned(c, [messageBytes |-> c.params[1].messageBytes, messageHash |-> 0,
                 sourceDomain |-> 0, destinationDomain |-> 0,
                 success |-> TRUE])

\* The result of completeTransfer from the receipt wait() resolved with.
completeTransferReceipt(c, receipt) ==
    Returned(c, [messageBytes |-> c.params[1].messageBytes, messageHash |-> 0,
                 sourceDomain |-> 0, destinationDomain |-> 0,
                 success |-> (receipt.status = 1)])

(***************************************************************************)
(* utils/attestationUtils.ts.  An HTTP response of the attestation service *)
(* is its status code (0: no response at all) and, for a success, the      *)
(* body's status and attestation (0: no attestation payload).              *)
(***************************************************************************)
NoPayload == 0

Attestation(message) == 2000 + message

HttpResponse(code, status, attestation) ==
    [code |-> code, status |-> status, attestation |-> attestation]

ATTESTATION_SERVICE_URLS == [mainnet |-> "iris-api.circle.com", testnet |-> "iris-api-sandbox.circle.com"]

\* fetchAttestation: a value {status, attestation} or a raised error.
\* A fetch that answers pending for every failure, not for 404 alone.
fetchAttestationSwallow(response, testnet) ==
    LET baseUrl == IF testnet THEN ATTESTATION_SERVICE_URLS.testnet
                   ELSE ATTESTATION_SERVICE_URLS.mainnet IN
    IF response.code >= 200 /\ response.code < 300
    THEN [raised |-> FALSE, status |-> response.status, attestation |-> response.attestation,
          host |-> baseUrl]
    ELSE [raised |-> FALSE, status |-> "pending", attestation |-> NoPayload, host |-> baseUrl]

fetchAttestation(response, testnet) ==
    LET baseUrl == IF testnet THEN ATTESTATION_SERVICE_URLS.testnet
                   ELSE ATTESTATION_SERVICE_URLS.mainnet IN
    IF response.code >= 200 /\ response.code < 300
    THEN [raised |-> FALSE, status |-> response.status, attestation |-> response.attestation,
          host |-> baseUrl]
    ELSE IF response.code = 404
    THEN [raised |-> FALSE, status |-> "pending", attestation |-> NoPayload, host |-> baseUrl]
    ELSE [raised |-> TRUE, status |-> "Attestation fetch failed", attestation |-> NoPayload,
          host |-> baseUrl]

(***************************************************************************)
(* getAttestation and getTransferStatus: one fetch each.                   *)
(***************************************************************************)
getAttestation(op, params, response, testnet) ==
    LET c == [IdleCall EXCEPT !.op = op, !.params = <<params>>]
        fetched == fetchAttestation(response, testnet) IN
    IF fetched.raised
    THEN Thrown(c, fetched.status)
    ELSE Returned(c, [messageBytes |-> 0, messageHash |-> params.messageHash,
                      sourceDomain |-> 0, destinationDomain |-> 0,
                      success |-> (fetched.status = "complete")])

(***************************************************************************)
(* The environment: what the attestation service answers for a hash, and   *)
(* when the destination message transmitter accepts receiveMessage.        *)
(***************************************************************************)
ServiceResponses(hash) ==
    {HttpResponse(500, None, NoPayload), HttpResponse(0, None, NoPayload)}
    \cup (IF MessageOfHash(hash) \in attested
          THEN {HttpResponse(200, "complete", Attestation(MessageOfHash(hash)))}
          ELSE {HttpResponse(404, None, NoPayload), HttpResponse(200, "pending", NoPayload)})

ReceiveMessageAccepts(message, attestation) ==
    /\ message \in attested
    /\ attestation = Attestation(message)
    /\ message \notin usedNonces

Mined(m) == m \in 1..Len(srcChain) /\ srcChain[m].state = "mined"

TransferState(m) ==
    IF m \in completed THEN "Completed"
    ELSE IF m \in attested THEN "Attested"
    ELSE IF Mined(m) THEN "Burned"
    ELSE "NotStarted"

\* The message an invocation is about (0: none yet).
MessageOf(c) ==
    IF c.op = "initiateTransfer" THEN c.tx
    ELSE IF c.op = "completeTransfer" THEN c.params[1].messageBytes
    ELSE MessageOfHash(c.params[1].messageHash)

\* An invocation that raised notes the state its transfer was in.
NoteFailure(c) ==
    IF c.pc = "thrown" THEN [c EXCEPT !.failedIn = TransferState(MessageOf(c))] ELSE c

LogShapes == [depositForBurn : BOOLEAN, messageSent : {"transmitter", "other", "none"}]

(***************************************************************************)
(* The actions of the client and of its environment.                       *)
(***************************************************************************)
Construct(config) ==
    /\ config \in caller.configs
    /\ ~client.constructed /\ client.error = None
    /\ client' = [CctpClientConstructor(config) EXCEPT !.instance = client.instance + 1]
    /\ UNCHANGED <<registry, calls, caller, srcChain, attested, dstChain, usedNonces,
                   completed, poll, util>>

\* The signer fills in the nonce of a transaction from the number of
\* transactions its wallet has sent on that chain, pending ones included.
WalletNonce(chain) == Len(chain)

\* A node takes no second transaction of a wallet with a nonce it has seen.
NonceFree(chain, nonce) == \A i \in DOMAIN chain : chain[i].nonce # nonce

Signed(c, chain) ==
    IF c.pc = "submit"
    THEN [c EXCEPT !.nonce = WalletNonce(chain), !.instance = client.instance]
    ELSE [c EXCEPT !.instance = client.instance]

InFlight(s) == calls[s].pc \in {"submit", "wait"}

\* A client that holds a lock from the call of a transaction method to the end
\* of the invocation: no method starts while another invocation is in flight.
CanInvokeLocked(s) ==
    /\ client.constructed
    /\ calls[s].pc \in {"idle", "returned", "thrown"}
    /\ caller.budget > 0
    /\ \A t \in DOMAIN calls : ~InFlight(t)

\* A method of the client can be called whenever the caller's previous call in
\* that slot is over; a caller that serializes waits for all its calls.
CanInvoke(s) ==
    /\ client.constructed
    /\ calls[s].pc \in {"idle", "returned", "thrown"}
    /\ caller.budget > 0
    /\ caller.serial => \A t \in DOMAIN calls : ~InFlight(t)

InvokeInitiate(s, params) ==
    /\ CanInvoke(s)
    /\ params \in caller.params
    /\ LET c == Signed(initiateTransferStart(Config, registry, params), srcChain) IN
       /\ calls' = [calls EXCEPT ![s] = NoteFailure(c)]
    /\ caller' = [caller EXCEPT !.budget = @ - 1]
    /\ UNCHANGED <<registry, client, srcChain, attested, dstChain, usedNonces, completed, poll, util>>

BurnSubmitSettles(s, outcome) ==
    /\ calls[s].op = "initiateTransfer" /\ calls[s].pc = "submit"
    /\ outcome = "accepted" => (Len(srcChain) < MaxBurns /\ NonceFree(srcChain, calls[s].nonce))
    /\ outcome = "NONCE_EXPIRED" => ~NonceFree(srcChain, calls[s].nonce)
    /\ LET c == initiateTransferSubmitted(calls[s], outcome, Len(srcChain) + 1) IN
       /\ calls' = [calls EXCEPT ![s] = NoteFailure(c)]
    /\ srcChain' = IF outcome = "accepted"
                   THEN Append(srcChain, [method |-> calls[s].chainCalls[1],
                                          nonce |-> calls[s].nonce,
                                          instance |-> calls[s].instance,
                                          state |-> "pending"])
                   ELSE srcChain
    /\ UNCHANGED <<registry, client, caller, attested, dstChain, usedNonces, completed, poll, util>>

SourceChainMines(i, state) ==
    /\ i \in 1..Len(srcChain) /\ srcChain[i].state = "pending"
    /\ srcChain' = [srcChain EXCEPT ![i].state = state]
    /\ UNCHANGED <<registry, client, calls, caller, attested, dstChain, usedNonces,
                   completed, poll, util>>

BurnWaitSettles(s, logs) ==
    /\ calls[s].op = "initiateTransfer" /\ calls[s].pc = "wait"
    /\ srcChain[calls[s].tx].state # "pending"
    /\ LET receipt == [status |-> IF srcChain[calls[s].tx].state = "mined" THEN 1 ELSE 0,
                       logs |-> logs, message |-> calls[s].tx]
           c == initiateTransferReceipt(Config, registry, calls[s], receipt) IN
       /\ calls' = [calls EXCEPT ![s] = NoteFailure(c)]
    /\ UNCHANGED <<registry, client, caller, srcChain, attested, dstChain, usedNonces,
                   completed, poll, util>>

WaitFails(s) ==
    /\ calls[s].pc = "wait"
    /\ LET c == Thrown(calls[s], "RPC_ERROR") IN
       /\ calls' = [calls EXCEPT ![s] = NoteFailure(c)]
    /\ UNCHANGED <<registry, client, caller, srcChain, attested, dstChain, usedNonces,
                   completed, poll, util>>

Attest(m) ==
    /\ Mined(m) /\ m \notin attested
    /\ attested' = attested \cup {m}
    /\ UNCHANGED <<registry, client, calls, caller, srcChain, dstChain, usedNonces,
                   completed, poll, util>>

InvokeGetAttestation(s, op, hash, response) ==
    /\ CanInvoke(s)
    /\ response \in ServiceResponses(hash)
    /\ LET c == getAttestation(op, [messageHash |-> hash], response, isTestnet) IN
       /\ calls' = [calls EXCEPT ![s] = NoteFailure([c EXCEPT !.instance = client.instance])]
    /\ caller' = [caller EXCEPT !.budget = @ - 1]
    /\ UNCHANGED <<registry, client, srcChain, attested, dstChain, usedNonces, completed, poll, util>>

InvokeComplete(s, params) ==
    /\ CanInvoke(s)
    /\ params.attestation \in {NoPayload} \cup {Attestation(m) : m \in attested}
    /\ LET c == [Signed(completeTransferStart(client, registry, params), dstChain)
                   EXCEPT !.replay = params.messageBytes \in usedNonces] IN
       /\ calls' = [calls EXCEPT ![s] = NoteFailure(c)]
    /\ caller' = [caller EXCEPT !.budget = @ - 1]
    /\ UNCHANGED <<registry, client, srcChain, attested, dstChain, usedNonces, completed, poll, util>>

ReceiveSubmitSettles(s, outcome) ==
    /\ calls[s].op = "completeTransfer" /\ calls[s].pc = "submit"
    /\ outcome = "accepted" => (Len(dstChain) < MaxReceives /\ NonceFree(dstChain, calls[s].nonce))
    /\ outcome = "NONCE_EXPIRED" => ~NonceFree(dstChain, calls[s].nonce)
    /\ outcome = "CALL_EXCEPTION" =>
          ~ReceiveMessageAccepts(calls[s].params[1].messageBytes, calls[s].params[1].attestation)
    /\ LET c == completeTransferSubmitted(calls[s], outcome, Len(dstChain) + 1) IN
       /\ calls' = [calls EXCEPT ![s] = NoteFailure(c)]
    /\ dstChain' = IF outcome = "accepted"
                   THEN Append(dstChain, [message |-> calls[s].params[1].messageBytes,
                                          attestation |-> calls[s].params[1].attestation,
                                          nonce |-> calls[s].nonce,
                                          instance |-> calls[s].instance,
                                          state |-> "pending"])
                   ELSE dstChain
    /\ UNCHANGED <<registry, client, caller, srcChain, attested, usedNonces, completed, poll, util>>

DestinationChainMines(j) ==
    /\ j \in 1..Len(dstChain) /\ dstChain[j].state = "pending"
    /\ IF ReceiveMessageAccepts(dstChain[j].message, dstChain[j].attestation)
       THEN /\ dstChain' = [dstChain EXCEPT ![j].state = "mined"]
            /\ usedNonces' = usedNonces \cup {dstChain[j].message}
       ELSE /\ dstChain' = [dstChain EXCEPT ![j].state = "reverted"]
            /\ usedNonces' = usedNonces
    /\ UNCHANGED <<registry, client, calls, caller, srcChain, attested, completed, poll, util>>

\* wait() on a reverted transaction raises CALL_EXCEPTION, or hands back the
\* receipt with a status that is not 1.
ReceiveWaitSettles(s, raises) ==
    /\ calls[s].op = "completeTransfer" /\ calls[s].pc = "wait"
    /\ dstChain[calls[s].tx].state # "pending"
    /\ raises => dstChain[calls[s].tx].state = "reverted"
    /\ LET receipt == [status |-> IF dstChain[calls[s].tx].state = "mined" THEN 1 ELSE 0]
           c == IF raises THEN Thrown(calls[s], "CALL_EXCEPTION")
                ELSE completeTransferReceipt(calls[s], receipt) IN
       /\ calls' = [calls EXCEPT ![s] = NoteFailure(c)]
       /\ completed' = IF c.pc = "returned" /\ c.result[1].success
                       THEN completed \cup {MessageOf(c)} ELSE completed
    /\ UNCHANGED <<registry, client, caller, srcChain, attested, dstChain, usedNonces, poll, util>>

Slots == DOMAIN calls

Next ==
    \/ \E config \in ConfigInputs : Construct(config)
    \/ \E s \in Slots, params \in ParamInputs : InvokeInitiate(s, params)
    \/ \E s \in Slots, outcome \in {"accepted", "RPC_ERROR", "NONCE_EXPIRED"} : BurnSubmitSettles(s, outcome)
    \/ \E i \in 1..MaxBurns, state \in {"mined", "reverted"} : SourceChainMines(i, state)
    \/ \E s \in Slots, logs \in LogShapes : BurnWaitSettles(s, logs)
    \/ \E s \in Slots : WaitFails(s)
    \/ \E m \in 1..MaxBurns : Attest(m)
    \/ \E s \in Slots, op \in {"getAttestation", "getTransferStatus"}, m \in 1..MaxBurns :
          \E response \in ServiceResponses(Keccak256(m)) :
             InvokeGetAttestation(s, op, Keccak256(m), response)
    \/ \E s \in Slots, m \in 0..MaxBurns, a \in {NoPayload} \cup {Attestation(k) : k \in 1..MaxBurns} :
          InvokeComplete(s, [messageBytes |-> m, attestation |-> a])
    \/ \E s \in Slots, outcome \in {"accepted", "RPC_ERROR", "CALL_EXCEPTION", "NONCE_EXPIRED"} :
          ReceiveSubmitSettles(s, outcome)
    \/ \E j \in 1..MaxReceives : DestinationChainMines(j)
    \/ \E s \in Slots, raises \in BOOLEAN : ReceiveWaitSettles(s, raises)

(***************************************************************************)
(* waitForAttestation(messageHash, isTestnet, maxAttempts, intervalMs).    *)
(* poll.responses are the HTTP responses its fetches received, in order.   *)
(***************************************************************************)
IdlePoll ==
    [pc |-> "idle", testnet |-> FALSE, maxAttempts |-> 0, attempts |-> 0, fetches |-> 0,
     sleeps |-> 0, responses |-> <<>>, result |-> NoPayload, error |-> None]

PollResponses ==
    {HttpResponse(404, None, NoPayload),
     HttpResponse(200, "pending", NoPayload),
     HttpResponse(200, "complete", NoPayload),
     HttpResponse(200, "complete", Attestation(1)),
     HttpResponse(500, None, NoPayload),
     HttpResponse(429, None, NoPayload),
     HttpResponse(0, None, NoPayload)}

\* A loop test that lets one more pass through: attempts <= maxAttempts.
waitForAttestationLoopInclusive(p) ==
    IF p.attempts <= p.maxAttempts
    THEN [p EXCEPT !.pc = "fetch"]
    ELSE [p EXCEPT !.pc = "timeout", !.error = "Attestation not available"]

\* while (attempts < maxAttempts) ... throw new Error('Attestation not available')
waitForAttestationLoop(p) ==
    IF p.attempts < p.maxAttempts
    THEN [p EXCEPT !.pc = "fetch"]
    ELSE [p EXCEPT !.pc = "timeout", !.error = "Attestation not available"]

\* A loop body that returns on status complete without looking at the payload.
waitForAttestationFetchAnyComplete(p, response) ==
    LET fetched == fetchAttestation(response, p.testnet)
        q == [p EXCEPT !.fetches = @ + 1, !.responses = Append(@, response)] IN
    IF fetched.raised
    THEN [q EXCEPT !.pc = "failed", !.error = fetched.status]
    ELSE IF fetched.status = "complete"
    THEN [q EXCEPT !.pc = "returned", !.result = fetched.attestation]
    ELSE IF q.attempts + 1 < q.maxAttempts
    THEN [q EXCEPT !.attempts = @ + 1, !.pc = "sleep"]
    ELSE waitForAttestationLoop([q EXCEPT !.attempts = @ + 1])

\* One pass of the loop body, from the fetch to the sleep (or to the end).
waitForAttestationFetch(p, response) ==
    LET fetched == fetchAttestation(response, p.testnet)
        q == [p EXCEPT !.fetches = @ + 1, !.responses = Append(@, response)] IN
    IF fetched.raised
    THEN [q EXCEPT !.pc = "failed", !.error = fetched.status]
    ELSE IF fetched.status = "complete" /\ fetched.attestation # NoPayload
    THEN [q EXCEPT !.pc = "returned", !.result = fetched.attestation]
    ELSE IF q.attempts + 1 < q.maxAttempts
    THEN [q EXCEPT !.attempts = @ + 1, !.pc = "sleep"]
    ELSE waitForAttestationLoop([q EXCEPT !.attempts = @ + 1])

waitForAttestationSlept(p) ==
    waitForAttestationLoop([p EXCEPT !.sleeps = @ + 1])

PollCall(testnet, maxAttempts) ==
    /\ poll.pc = "idle"
    /\ poll' = waitForAttestationLoop(
                  [IdlePoll EXCEPT !.testnet = testnet, !.maxAttempts = maxAttempts])
    /\ UNCHANGED clientVars

PollFetch(response) ==
    /\ poll.pc = "fetch"
    /\ poll' = waitForAttestationFetch(poll, response)
    /\ UNCHANGED clientVars

PollSleep ==
    /\ poll.pc = "sleep"
    /\ poll' = waitForAttestationSlept(poll)
    /\ UNCHANGED clientVars

NextWait ==
    \/ \E testnet \in BOOLEAN, maxAttempts \in 0..MaxAttempts : PollCall(testnet, maxAttempts)
    \/ \E response \in PollResponses : PollFetch(response)
    \/ PollSleep

Init ==
    /\ registry = ShippedRegistry
    /\ client = NoClient
    /\ calls = [s \in {1} |-> IdleCall]
    /\ caller = [budget |-> MaxInvocations, serial |-> TRUE, configs |-> DeepConfigs,
                 params |-> DeepParams]
    /\ srcChain = <<>>
    /\ attested = {}
    /\ dstChain = <<>>
    /\ usedNonces = {}
    /\ completed = {}
    /\ poll = IdlePoll
    /\ util = IdleUtil

Spec == Init /\ [][Next]_vars

(***************************************************************************)
(* The runs that try every configuration, every parameter and a registry   *)
(* that lacks an address, one invocation each.                             *)
(***************************************************************************)
RegistryVariants ==
    [usdc : {USDC_CONTRACTS, USDC_CONTRACTS \ {"ethereum"}},
     tokenMessenger : {TOKEN_MESSENGER_CONTRACTS, TOKEN_MESSENGER_CONTRACTS \ {"ethereum"}},
     messageTransmitter : {MESSAGE_TRANSMITTER_CONTRACTS,
                           MESSAGE_TRANSMITTER_CONTRACTS \ {"ethereum"},
                           MESSAGE_TRANSMITTER_CONTRACTS \ {"avalanche"}}]

InitSetup ==
    /\ registry \in RegistryVariants
    /\ client = NoClient
    /\ calls = [s \in {1} |-> IdleCall]
    /\ caller = [budget |-> SetupInvocations, serial |-> TRUE, configs |-> ConfigInputs,
                 params |-> ParamInputs]
    /\ srcChain = <<>>
    /\ attested = {}
    /\ dstChain = <<>>
    /\ usedNonces = {}
    /\ completed = {}
    /\ poll = IdlePoll
    /\ util = IdleUtil

SpecSetup == InitSetup /\ [][Next]_vars

(***************************************************************************)
(* One waitForAttestation call against an attestation service that may     *)
(* answer anything; with the fairness of a running event loop, every       *)
(* pending fetch and every pending sleep settles.                          *)
(***************************************************************************)
SpecWait == Init /\ [][NextWait]_vars

SpecWaitFair == Init /\ [][NextWait]_vars /\ WF_vars(NextWait)
(***************************************************************************)
(* The claims.                                                             *)
(***************************************************************************)
(***************************************************************************)
(* Two callers' slots on one client: invocations may overlap unless the    *)
(* caller serializes them.                                                 *)
(***************************************************************************)
ParallelConfigs ==
    [sourceNetwork : {"ethereum"}, destinationNetwork : {"avalanche"},
     destinationRpcUrl : RpcUrlInputs \ {EmptyString}]

ParallelParams ==
    [amount : {<<"1", "0", "0", ".", "5", "0">>}, destinationAddress : {EvmAddr},
     destinationCaller : {EmptyString}]

InitParallel ==
    /\ registry = ShippedRegistry
    /\ client = NoClient
    /\ calls = [s \in {1, 2} |-> IdleCall]
    /\ caller \in [budget : {ParallelInvocations}, serial : BOOLEAN,
                   configs : {ParallelConfigs}, params : {ParallelParams}]
    /\ srcChain = <<>>
    /\ attested = {}
    /\ dstChain = <<>>
    /\ usedNonces = {}
    /\ completed = {}
    /\ poll = IdlePoll
    /\ util = IdleUtil

SpecParallel == InitParallel /\ [][Next]_vars

(***************************************************************************)
(* The node builds a client per item (createCctpClient) and drops it after *)
(* the operation: a transfer burned through one instance is queried and    *)
(* completed through later ones.                                           *)
(***************************************************************************)
Discard ==
    /\ client.constructed
    /\ client.instance < MaxInstances
    /\ \A s \in DOMAIN calls : ~InFlight(s)
    /\ client' = [NoClient EXCEPT !.instance = client.instance]
    /\ UNCHANGED <<registry, calls, caller, srcChain, attested, dstChain, usedNonces,
                   completed, poll, util>>

NextFresh ==
    \/ Next
    \/ Discard

FreshConfigs ==
    [sourceNetwork : {"ethereum"}, destinationNetwork : {"avalanche"},
     destinationRpcUrl : RpcUrlInputs]

InitFresh ==
    /\ registry = ShippedRegistry
    /\ client = NoClient
    /\ calls = [s \in {1} |-> IdleCall]
    /\ caller = [budget |-> FreshInvocations, serial |-> TRUE, configs |-> FreshConfigs,
                 params |-> ParallelParams]
    /\ srcChain = <<>>
    /\ attested = {}
    /\ dstChain = <<>>
    /\ usedNonces = {}
    /\ completed = {}
    /\ poll = IdlePoll
    /\ util = IdleUtil

SpecFresh == InitFresh /\ [][NextFresh]_vars

(***************************************************************************)
(* utils/signatureUtils.ts, transport/webhookHandler.ts, CircleTrigger.    *)
(* A request body is what the framework parsed: nothing, null, or an       *)
(* object with or without a notificationType.  JSON.stringify gives its    *)
(* text (a sequence of lexical pieces), or undefined for no body.          *)
(***************************************************************************)
BodyInputs ==
    {[kind |-> "undefined", notificationType |-> Undefined],
     [kind |-> "null", notificationType |-> Undefined],
     [kind |-> "object", notificationType |-> Undefined],
     [kind |-> "object", notificationType |-> "transfers.created"],
     [kind |-> "object", notificationType |-> "payments.paid"]}

\* A string that is not there (undefined): no sequence of characters equals it.
NoString == <<Undefined>>

JsonStringify(body) ==
    IF body.kind = "undefined" THEN NoString
    ELSE IF body.kind = "null" THEN <<"n", "u", "l", "l">>
    ELSE IF body.notificationType = Undefined THEN <<"{", "}">>
    ELSE <<"{", "notificationType", ":", body.notificationType, "}">>

\* The same JSON value as a sender may have put it on the wire.
SentBytes(body) ==
    IF body.kind = "undefined" THEN <<>>
    ELSE IF body.kind = "null" THEN <<"n", "u", "l", "l", "\n">>
    ELSE IF body.notificationType = Undefined THEN <<"{", " ", "}">>
    ELSE <<"{", " ", "notificationType", ":", " ", body.notificationType, " ", "}">>

UpperSeq ==
    <<"A", "B", "C", "D", "E", "F", "G", "H", "I", "J", "K", "L", "M",
      "N", "O", "P", "Q", "R", "S", "T", "U", "V", "W", "X", "Y", "Z">>

LowerSeq ==
    <<"a", "b", "c", "d", "e", "f", "g", "h", "i", "j", "k", "l", "m",
      "n", "o", "p", "q", "r", "s", "t", "u", "v", "w", "x", "y", "z">>

IndexIn(seq, x) == CHOOSE i \in DOMAIN seq : seq[i] = x

ToLowerCase(s) ==
    [i \in DOMAIN s |-> IF s[i] \in Range(UpperSeq) THEN LowerSeq[IndexIn(UpperSeq, s[i])]
                        ELSE s[i]]

ToUpperCase(s) ==
    [i \in DOMAIN s |-> IF s[i] \in Range(LowerSeq) THEN UpperSeq[IndexIn(LowerSeq, s[i])]
                        ELSE s[i]]

Secret1 == <<"k", "1">>

Secret2 == <<"k", "2">>

SecretSeq == <<Secret1, Secret2>>

PayloadSeq ==
    <<JsonStringify([kind |-> "null", notificationType |-> Undefined]),
      JsonStringify([kind |-> "object", notificationType |-> Undefined]),
      JsonStringify([kind |-> "object", notificationType |-> "transfers.created"]),
      JsonStringify([kind |-> "object", notificationType |-> "payments.paid"]),
      SentBytes([kind |-> "null", notificationType |-> Undefined]),
      SentBytes([kind |-> "object", notificationType |-> Undefined]),
      SentBytes([kind |-> "object", notificationType |-> "transfers.created"]),
      SentBytes([kind |-> "object", notificationType |-> "payments.paid"])>>

HexDigitSeq ==
    <<"0", "1", "2", "3", "4", "5", "6", "7", "8", "9", "a", "b", "c", "d", "e", "f">>

\* crypto.createHmac('sha256', secret).update(payload).digest('hex'): lower-case
\* hex, a different digest for every (secret, payload) pair; four digits stand
\* for the sixty-four.
HmacSha256Hex(secret, payload) ==
    <<HexDigitSeq[10 + IndexIn(SecretSeq, secret)], HexDigitSeq[IndexIn(PayloadSeq, payload)],
      "f", HexDigitSeq[17 - IndexIn(PayloadSeq, payload)]>>

\* crypto.timingSafeEqual: a RangeError for buffers of different lengths.
TimingSafeEqual(a, b) ==
    IF Len(a) # Len(b) THEN "RangeError" ELSE IF a = b THEN "true" ELSE "false"

Falsy(s) == s = NoString \/ s = EmptyString

\* A check that compares no more than the characters the signature has.
verifyWebhookSignaturePrefix(payload, signature, secret) ==
    IF Falsy(payload) \/ Falsy(signature) \/ Falsy(secret)
    THEN FALSE
    ELSE LET expected == ToLowerCase(HmacSha256Hex(secret, payload))
             given == ToLowerCase(signature) IN
         /\ Len(given) <= Len(expected)
         /\ SubSeq(expected, 1, Len(given)) = given

verifyWebhookSignature(payload, signature, secret) ==
    IF Falsy(payload) \/ Falsy(signature) \/ Falsy(secret)
    THEN FALSE
    ELSE TimingSafeEqual(ToLowerCase(signature),
                         ToLowerCase(HmacSha256Hex(secret, payload))) = "true"

\* WebhookHandler.verifyAndParse; JSON.parse of "null" gives null, and reading
\* null.clientId raises inside the try.
verifyAndParse(rawBody, signature, webhookSecret) ==
    IF Falsy(signature)
    THEN [valid |-> FALSE, error |-> "Missing signature header"]
    ELSE IF ~verifyWebhookSignature(rawBody, signature, webhookSecret)
    THEN [valid |-> FALSE, error |-> "Invalid signature"]
    ELSE IF rawBody = <<"n", "u", "l", "l">>
    THEN [valid |-> FALSE, error |-> "Failed to parse webhook payload"]
    ELSE [valid |-> TRUE, error |-> None]

\* CircleTrigger.webhook: the response status and whether workflow data is
\* returned.  Reading notificationType of a body that is null or absent raises.
webhook(body, signature, webhookSecret, events) ==
    LET rawBody == JsonStringify(body) IN
    IF ~Falsy(webhookSecret) /\ ~verifyAndParse(rawBody, signature, webhookSecret).valid
    THEN [status |-> 401, workflow |-> FALSE, message |-> "Invalid signature"]
    ELSE IF body.kind # "object"
    THEN [status |-> 500, workflow |-> FALSE, message |-> "TypeError"]
    ELSE IF Len(events) > 0 /\ body.notificationType \notin Range(events)
    THEN [status |-> 200, workflow |-> FALSE, message |-> "Event filtered"]
    ELSE [status |-> 200, workflow |-> TRUE, message |-> None]

\* The signatures a request may carry for a body: none, empty, the genuine one
\* in either case, one under another secret, one over another payload or over
\* the bytes as sent, a truncated and an extended one.
SignatureInputs(body) ==
    LET payload == IF body.kind = "undefined" THEN PayloadSeq[2] ELSE JsonStringify(body)
        genuine == HmacSha256Hex(Secret1, payload) IN
    {NoString, EmptyString, genuine, ToUpperCase(genuine),
     HmacSha256Hex(Secret2, payload),
     HmacSha256Hex(Secret1, PayloadSeq[1]),
     HmacSha256Hex(Secret1, PayloadSeq[3]),
     HmacSha256Hex(Secret1, SentBytes([body EXCEPT !.kind = "object"])),
     SubSeq(genuine, 1, 3), Append(genuine, "0")}

EventsInputs == {<<>>, <<"transfers.created">>, <<"transfers.created", "payments.paid">>}

WebhookInputs ==
    {<<body, signature, secret, events>> :
        body \in BodyInputs, secret \in {EmptyString, Secret1}, events \in EventsInputs,
        signature \in UNION {SignatureInputs(b) : b \in BodyInputs}}

QuietClient ==
    /\ registry = ShippedRegistry
    /\ client = NoClient
    /\ calls = [s \in {1} |-> IdleCall]
    /\ caller = [budget |-> 0, serial |-> TRUE, configs |-> {}, params |-> {}]
    /\ srcChain = <<>>
    /\ attested = {}
    /\ dstChain = <<>>
    /\ usedNonces = {}
    /\ completed = {}
    /\ poll = IdlePoll

InitWebhook ==
    /\ QuietClient
    /\ util \in {[fn |-> "webhook", args |-> args, out |-> <<>>] : args \in WebhookInputs}

WebhookRequest ==
    /\ util.fn = "webhook" /\ util.out = <<>>
    /\ util' = [util EXCEPT !.out = <<webhook(util.args[1], util.args[2], util.args[3],
                                              util.args[4])>>]
    /\ UNCHANGED clientVarsOnly

SpecWebhook == InitWebhook /\ [][WebhookRequest]_vars

(***************************************************************************)
(* utils/addressUtils.ts: the conversion to and from the 32-byte form.    *)
(***************************************************************************)
DigitSeq == <<"0", "1", "2", "3", "4", "5", "6", "7", "8", "9">>

\* The UTF-8 code of a character (all the characters here are ASCII).
CharCode(c) ==
    IF c \in Digits THEN 47 + IndexIn(DigitSeq, c)
    ELSE IF c \in UpperChars THEN 64 + IndexIn(UpperSeq, c)
    ELSE IF c \in LowerChars THEN 96 + IndexIn(LowerSeq, c)
    ELSE CASE c = "\t" -> 9 [] c = "\n" -> 10 [] c = " " -> 32
           [] c = "-" -> 45 [] c = "." -> 46 [] c = "_" -> 95

CodedChars == (((Digits \cup UpperChars) \cup LowerChars) \cup WhiteSpace) \cup {"-", ".", "_"}

\* Buffer.from(s).toString('hex'): two lower-case hex digits for every byte.
BufferToHex(s) ==
    [i \in 1..(2 * Len(s)) |->
        LET code == CharCode(s[(i + 1) \div 2]) IN
        IF i % 2 = 1 THEN HexDigitSeq[(code \div 16) + 1] ELSE HexDigitSeq[(code % 16) + 1]]

HexValue(c) == IndexIn(HexDigitSeq, ToLowerCase(<<c>>)[1]) - 1

\* Buffer.from(h, 'hex').toString(): the bytes of the leading pairs of hex
\* digits, stopping at the first pair that is incomplete or not hex.
HexToString(h) ==
    LET pairs == {n \in 0..(Len(h) \div 2) : \A i \in 1..(2 * n) : h[i] \in HexChars}
        count == CHOOSE n \in pairs : \A m \in pairs : m <= n
        CharOf(code) == IF \E c \in CodedChars : CharCode(c) = code
                        THEN CHOOSE c \in CodedChars : CharCode(c) = code
                        ELSE "?" IN
    [k \in 1..count |-> CharOf(16 * HexValue(h[2 * k - 1]) + HexValue(h[2 * k]))]

\* String.prototype.padStart(n, c)
PadStart(s, n, c) == IF Len(s) >= n THEN s ELSE Rep(c, n - Len(s)) \o s

\* String.prototype.padEnd(n, c)
PadEnd(s, n, c) == IF Len(s) >= n THEN s ELSE s \o Rep(c, n - Len(s))

\* String.prototype.replace(pattern, '') with a string pattern: the first
\* occurrence is removed.
RemoveFirst(s, pattern) ==
    LET at == {i \in 1..(Len(s) - Len(pattern) + 1) :
                  SubSeq(s, i, i + Len(pattern) - 1) = pattern} IN
    IF at = {} THEN s
    ELSE LET i == CHOOSE j \in at : \A k \in at : j <= k IN
         SubSeq(s, 1, i - 1) \o SubSeq(s, i + Len(pattern), Len(s))

\* String.prototype.replace(/^0+/, '')
RECURSIVE StripLeadingZeros(_)
StripLeadingZeros(s) == IF s # <<>> /\ Head(s) = "0" THEN StripLeadingZeros(Tail(s)) ELSE s

\* String.prototype.slice(-n)
SliceLast(s, n) == IF Len(s) <= n THEN s ELSE SubSeq(s, Len(s) - n + 1, Len(s))

\* A conversion that pads the cleaned EVM address on the right.
addressToBytes32PadEnd(address, network) ==
    IF network \in EVM_NETWORKS
    THEN <<"0", "x">> \o PadEnd(RemoveFirst(ToLowerCase(address), <<"0", "x">>), 64, "0")
    ELSE <<"0", "x">> \o PadStart(BufferToHex(address), 64, "0")

addressToBytes32(address, network) ==
    IF network \in EVM_NETWORKS
    THEN LET cleanAddress == RemoveFirst(ToLowerCase(address), <<"0", "x">>) IN
         <<"0", "x">> \o PadStart(cleanAddress, 64, "0")
    ELSE <<"0", "x">> \o PadStart(BufferToHex(address), 64, "0")

bytes32ToAddress(bytes32, network) ==
    IF network \in EVM_NETWORKS
    THEN LET cleanBytes == RemoveFirst(bytes32, <<"0", "x">>) IN
         <<"0", "x">> \o SliceLast(cleanBytes, 40)
    ELSE LET cleanBytes == StripLeadingZeros(RemoveFirst(bytes32, <<"0", "x">>)) IN
         HexToString(cleanBytes)

\* constants/networks.ts: the keys of NETWORKS.
SupportedNetworks ==
    EVM_NETWORKS \cup {"solana", "solana-devnet", "stellar", "near", "noble", "hedera"}

EvmChecksummed ==
    <<"0", "x", "A", "0", "b", "8", "6", "9", "9", "1", "c", "6", "2", "1", "8", "b", "3",
      "6", "c", "1", "d", "1", "9", "D", "4", "a", "2", "e", "9", "E", "b", "0", "c", "E",
      "3", "6", "0", "6", "e", "B", "4", "8">>

EvmLower == ToLowerCase(EvmChecksummed)

EvmZero == <<"0", "x">> \o Rep("0", 40)

Solana44 ==
    <<"E", "P", "j", "F", "W", "d", "d", "5", "A", "u", "f", "q", "S", "S", "q", "e", "M",
      "2", "q", "N", "1", "x", "z", "y", "b", "a", "p", "C", "8", "G", "4", "w", "E", "G",
      "G", "k", "Z", "w", "y", "T", "D", "t", "1", "v">>

Solana32 == Rep("1", 32)

Noble44 ==
    <<"n", "o", "b", "l", "e", "1", "q", "g", "8", "r", "9", "p", "v", "r", "h", "4", "u",
      "6", "f", "g", "c", "d", "j", "s", "3", "7", "l", "4", "g", "8", "d", "p", "2", "a",
      "3", "5", "c", "3", "y", "k", "r", "z", "z", "z">>

Stellar56 == (<<"G">> \o Rep("A", 31)) \o Rep("7", 24)

\* The addresses the functions are applied to: well-formed ones of every
\* family, and ones that are too short, too long, padded with spaces or
\* written with a character outside the alphabet.
CodecAddressInputs ==
    {EmptyString, EvmChecksummed, EvmLower, EvmZero,
     <<"0", "x">> \o ToUpperCase(SubSeq(EvmLower, 3, 42)),
     <<"0", "X">> \o SubSeq(EvmLower, 3, 42),
     SubSeq(EvmLower, 1, 41), Append(EvmLower, "0"),
     (<<" ">> \o EvmLower) \o <<" ">>,
     Solana44, Solana32, Append(Solana44, "1"), SubSeq(Solana32, 1, 31),
     <<"0">> \o SubSeq(Solana44, 2, 44),
     Noble44, SubSeq(Noble44, 1, 43),
     Stellar56, <<"g">> \o Tail(Stellar56),
     <<"a", ".", "n", "e", "a", "r">>,
     <<"s", "u", "b", ".", "a", "_", "1", ".", "T", "e", "s", "t", "n", "e", "t">>,
     <<".", "n", "e", "a", "r">>, Rep("a", 64),
     <<"0", ".", "0", ".", "1", "2", "3", "4", "5", "6">>, <<"0", ".", "0", ".">>}

\* Every supported network, and identifiers that name none.
NetworkInputs == SupportedNetworks \cup {"bitcoin", "Ethereum", ""}

InitAddress ==
    /\ QuietClient
    /\ util \in {[fn |-> fn, args |-> <<address, network>>, out |-> <<>>] :
                    fn \in {"validateAddress", "addressToBytes32"},
                    address \in CodecAddressInputs, network \in NetworkInputs}

ValidateAddressCall ==
    /\ util.fn = "validateAddress" /\ util.out = <<>>
    /\ util' = [util EXCEPT !.out = <<validateAddress(util.args[1], util.args[2])>>]
    /\ UNCHANGED clientVarsOnly

AddressToBytes32Call ==
    /\ util.fn = "addressToBytes32" /\ util.out = <<>>
    /\ util' = [util EXCEPT !.out = <<addressToBytes32(util.args[1], util.args[2])>>]
    /\ UNCHANGED clientVarsOnly

\* The 32-byte form just computed is converted back for the same network.
Bytes32ToAddressCall ==
    /\ util.fn = "addressToBytes32" /\ util.out # <<>>
    /\ util' = [fn |-> "bytes32ToAddress", args |-> <<util.out[1], util.args[2]>>,
                out |-> <<bytes32ToAddress(util.out[1], util.args[2])>>]
    /\ UNCHANGED clientVarsOnly

NextAddress == ValidateAddressCall \/ AddressToBytes32Call \/ Bytes32ToAddressCall

SpecAddress == InitAddress /\ [][NextAddress]_vars

(***************************************************************************)
(* utils/amountUtils.ts.  toRawAmount computes in IEEE 754 double          *)
(* precision: parseFloat rounds the decimal text to the nearest double,    *)
(* the product with the multiplier is rounded again, and Math.round and    *)
(* Number.prototype.toString act on that double.  Natural numbers of any   *)
(* size are sequences of limbs in base 10000, least significant first,     *)
(* without leading zero limbs; a double is a sign, a significand m below   *)
(* 2^53 and an exponent e, standing for m * 2^e.                           *)
(***************************************************************************)
LimbBase == 10000

LimbAt(a, i) == IF i \in DOMAIN a THEN a[i] ELSE 0

NatNorm(a) ==
    LET nz == {i \in DOMAIN a : a[i] # 0} IN
    IF nz = {} THEN <<>> ELSE SubSeq(a, 1, CHOOSE i \in nz : \A j \in nz : j <= i)

NatLess(a, b) ==
    \/ Len(a) < Len(b)
    \/ /\ Len(a) = Len(b)
       /\ \E i \in DOMAIN a : a[i] < b[i] /\ \A j \in (i + 1)..Len(a) : a[j] = b[j]

NatAdd(a, b) ==
    LET n == (IF Len(a) > Len(b) THEN Len(a) ELSE Len(b)) + 1
        s(i) == LimbAt(a, i) + LimbAt(b, i)
        carry(i) == IF \E j \in 1..(i - 1) :
                          s(j) >= LimbBase /\ \A k \in (j + 1)..(i - 1) : s(k) = LimbBase - 1
                    THEN 1 ELSE 0 IN
    NatNorm([i \in 1..n |-> (s(i) + carry(i)) % LimbBase])

\* a - b for a >= b
NatSub(a, b) ==
    LET borrow(i) == IF \E j \in 1..(i - 1) :
                           /\ LimbAt(a, j) < LimbAt(b, j)
                           /\ \A k \in (j + 1)..(i - 1) : LimbAt(a, k) = LimbAt(b, k)
                     THEN 1 ELSE 0 IN
    NatNorm([i \in 1..Len(a) |->
                (((LimbAt(a, i) - LimbAt(b, i)) - borrow(i)) + LimbBase) % LimbBase])

RECURSIVE NatMulSmallFrom(_, _, _, _)
NatMulSmallFrom(a, c, i, carry) ==
    IF i > Len(a) THEN IF carry = 0 THEN <<>> ELSE <<carry>>
    ELSE LET t == a[i] * c + carry IN
         <<t % LimbBase>> \o NatMulSmallFrom(a, c, i + 1, t \div LimbBase)

\* a * c for c below the base
NatMulSmall(a, c) == NatNorm(NatMulSmallFrom(a, c, 1, 0))

RECURSIVE NatDivSmallFrom(_, _, _, _)
NatDivSmallFrom(a, c, i, rem) ==
    IF i = 0 THEN [quot |-> <<>>, rem |-> rem]
    ELSE LET t == rem * LimbBase + a[i]
             rest == NatDivSmallFrom(a, c, i - 1, t % c) IN
         [quot |-> Append(rest.quot, t \div c), rem |-> rest.rem]

\* quotient and remainder of a by c, for c below the base
NatDivSmall(a, c) ==
    LET d == NatDivSmallFrom(a, c, Len(a), 0) IN [quot |-> NatNorm(d.quot), rem |-> d.rem]

RECURSIVE NatMulFrom(_, _, _)
NatMulFrom(a, b, i) ==
    IF i > Len(b) THEN <<>>
    ELSE LET part == NatMulSmall(a, b[i]) IN
         NatAdd(IF part = <<>> THEN <<>> ELSE Rep(0, i - 1) \o part, NatMulFrom(a, b, i + 1))

NatMul(a, b) == NatMulFrom(a, b, 1)

RECURSIVE NatMulPow2(_, _)
NatMulPow2(a, n) ==
    IF a = <<>> \/ n = 0 THEN a
    ELSE IF n >= 13 THEN NatMulPow2(NatMulSmall(a, 8192), n - 13)
    ELSE NatMulSmall(a, 2 ^ n)

\* the quotient of a by 2^n, and whether the division left no remainder
RECURSIVE NatDivPow2(_, _)
NatDivPow2(a, n) ==
    IF a = <<>> \/ n = 0 THEN [quot |-> a, exact |-> TRUE]
    ELSE LET step == IF n >= 13 THEN 13 ELSE n
             d == NatDivSmall(a, 2 ^ step)
             rest == NatDivPow2(d.quot, n - step) IN
         [quot |-> rest.quot, exact |-> rest.exact /\ d.rem = 0]

\* the quotient of a by 10^k, and whether the division left no remainder
NatDivPow10(a, k) ==
    LET d == NatDivSmall(SubSeq(a, (k \div 4) + 1, Len(a)), 10 ^ (k % 4)) IN
    [quot |-> d.quot,
     exact |-> d.rem = 0 /\ \A i \in 1..(k \div 4) : LimbAt(a, i) = 0]

Pow2(n) == NatMulPow2(<<1>>, n)

\* the number of bits of a non-zero a
BitLength(a) ==
    CHOOSE n \in (13 * (Len(a) - 1) + 1)..(14 * Len(a)) :
        ~NatLess(a, Pow2(n - 1)) /\ NatLess(a, Pow2(n))

DigitValue(digits, i) == IF i \in DOMAIN digits THEN IndexIn(DigitSeq, digits[i]) - 1 ELSE 0

\* The number a sequence of decimal digits writes.
NatOfDecimal(digits) ==
    LET n == Len(digits) IN
    NatNorm([i \in 1..((n + 3) \div 4) |->
                LET last == n - 4 * (i - 1) IN
                ((DigitValue(digits, last) + 10 * DigitValue(digits, last - 1))
                    + 100 * DigitValue(digits, last - 2))
                    + 1000 * DigitValue(digits, last - 3)])

\* The decimal digits of a number.
DecimalOfNat(a) ==
    IF a = <<>> THEN <<"0">>
    ELSE StripLeadingZeros(
             [p \in 1..(4 * Len(a)) |->
                 LET limb == a[Len(a) - ((p - 1) \div 4)] IN
                 DigitSeq[((limb \div (10 ^ (3 - ((p - 1) % 4)))) % 10) + 1]])

NaN == [nan |-> TRUE, neg |-> FALSE, m |-> <<>>, e |-> 0]

\* Round to nearest, ties to even: the 53 leading bits of n, where sticky
\* tells that a non-zero part below n was already dropped; shift is the number
\* of bits dropped.
RoundToDouble(n, sticky) ==
    LET d == BitLength(n) - 53 IN
    IF d <= 0 THEN [m |-> n, shift |-> 0]
    ELSE LET q == NatDivPow2(n, d).quot
             rem == NatSub(n, NatMulPow2(q, d))
             half == Pow2(d - 1)
             up == NatLess(half, rem) \/ (rem = half /\ (sticky \/ q[1] % 2 = 1))
             m0 == IF up THEN NatAdd(q, <<1>>) ELSE q IN
         IF m0 = Pow2(53) THEN [m |-> Pow2(52), shift |-> d + 1]
         ELSE [m |-> m0, shift |-> d]

\* The double nearest to p / 10^k: p is scaled by a power of two that leaves
\* the quotient more than 53 bits.
MakeDouble(neg, p, k) ==
    IF p = <<>> THEN [nan |-> FALSE, neg |-> neg, m |-> <<>>, e |-> 0]
    ELSE LET s == CHOOSE t \in {13 * j : j \in 0..16} :
                      Len(NatMulPow2(p, t)) >= (k \div 4) + 6
             d == NatDivPow10(NatMulPow2(p, s), k)
             r == RoundToDouble(d.quot, ~d.exact) IN
         [nan |-> FALSE, neg |-> neg, m |-> r.m, e |-> r.shift - s]

\* The number of leading characters of s that are decimal digits.
DigitRun(s) ==
    CHOOSE n \in 0..Len(s) :
        /\ \A i \in 1..n : s[i] \in Digits
        /\ n < Len(s) => s[n + 1] \notin Digits

\* The parts of the longest numeric prefix: sign, integer digits, fraction
\* digits.  (No input here writes an exponent.)
DecimalParts(amount) ==
    LET s == TrimLeft(amount)
        signed == s # <<>> /\ Head(s) \in {"+", "-"}
        t == IF signed THEN Tail(s) ELSE s
        n == DigitRun(t)
        afterPoint == IF n < Len(t) /\ t[n + 1] = "." THEN SubSeq(t, n + 2, Len(t)) ELSE <<>>
    IN [neg |-> signed /\ Head(s) = "-",
        int |-> SubSeq(t, 1, n),
        frac |-> SubSeq(afterPoint, 1, DigitRun(afterPoint))]

\* parseFloat
ParseFloat(amount) ==
    IF ParseFloatIsNaN(amount) THEN NaN
    ELSE LET parts == DecimalParts(amount) IN
         MakeDouble(parts.neg, NatOfDecimal(parts.int \o parts.frac), Len(parts.frac))

\* x * y in double precision
DoubleMultiply(x, y) ==
    IF x.nan \/ y.nan THEN NaN
    ELSE IF x.m = <<>> \/ y.m = <<>>
    THEN [nan |-> FALSE, neg |-> x.neg # y.neg, m |-> <<>>, e |-> 0]
    ELSE LET r == RoundToDouble(NatMul(x.m, y.m), FALSE) IN
         [nan |-> FALSE, neg |-> x.neg # y.neg, m |-> r.m, e |-> (x.e + y.e) + r.shift]

\* Math.round: the integer nearest to x, a tie going towards +Infinity.
MathRound(x) ==
    IF x.m = <<>> \/ x.e >= 0
    THEN [neg |-> x.neg, int |-> NatMulPow2(x.m, x.e)]
    ELSE LET k == 0 - x.e IN
         IF x.neg
         THEN [neg |-> TRUE,
               int |-> NatDivPow2(NatAdd(x.m, NatSub(Pow2(k - 1), <<1>>)), k).quot]
         ELSE [neg |-> FALSE, int |-> NatDivPow2(NatAdd(x.m, Pow2(k - 1)), k).quot]

\* String.prototype.replace(/0+$/, '')
RECURSIVE StripTrailingZeros(_)
StripTrailingZeros(s) ==
    IF s # <<>> /\ s[Len(s)] = "0" THEN StripTrailingZeros(SubSeq(s, 1, Len(s) - 1)) ELSE s

\* Number.prototype.toString of an integer: decimal digits below 10^21, the
\* exponent form from there on (written here from the integer's own digits).
NumberToString(n) ==
    LET sign == IF n.neg /\ n.int # <<>> THEN <<"-">> ELSE <<>>
        digits == DecimalOfNat(n.int) IN
    IF sign = <<>> /\ n.int = <<>> THEN <<"0">>
    ELSE IF Len(digits) <= 21 THEN sign \o digits
    ELSE LET mantissa == StripTrailingZeros(digits)
             exponent == DecimalOfNat(<<Len(digits) - 1>>) IN
         (((sign \o <<Head(mantissa)>>)
             \o (IF Len(mantissa) > 1 THEN <<".">> \o Tail(mantissa) ELSE <<>>))
             \o <<"e", "+">>) \o exponent

STABLECOIN_DECIMALS == 6

Gives(value) == [error |-> None, value |-> value]

Throws(error) == [error |-> error, value |-> <<>>]

toRawAmount(amount) ==
    LET numAmount == ParseFloat(amount) IN
    IF numAmount.nan THEN Throws("Invalid amount")
    ELSE LET multiplier == MakeDouble(FALSE, NatOfDecimal(<<"1">> \o Rep("0", STABLECOIN_DECIMALS)), 0)
             rawAmount == MathRound(DoubleMultiply(numAmount, multiplier)) IN
         Gives(NumberToString(rawAmount))

\* BigInt(string): white space is trimmed, the empty string is 0n, anything
\* but an optional sign and decimal digits is a SyntaxError.
StringToBigInt(s) ==
    LET t == Trim(s)
        signed == t # <<>> /\ Head(t) \in {"+", "-"}
        digits == IF signed THEN Tail(t) ELSE t IN
    IF t = <<>> THEN [error |-> None, neg |-> FALSE, digits |-> <<>>]
    ELSE IF digits = <<>> \/ ~AllIn(digits, 1, Digits)
    THEN [error |-> "SyntaxError", neg |-> FALSE, digits |-> <<>>]
    ELSE [error |-> None, neg |-> Head(t) = "-" /\ StripLeadingZeros(digits) # <<>>,
          digits |-> StripLeadingZeros(digits)]

\* BigInt.prototype.toString
BigIntToString(neg, digits) ==
    IF digits = <<>> THEN <<"0">> ELSE (IF neg THEN <<"-">> ELSE <<>>) \o digits

\* The division truncates towards zero and the remainder takes the sign of
\* the amount.
fromRawAmount(rawAmount) ==
    LET amount == StringToBigInt(rawAmount) IN
    IF amount.error # None THEN Throws(amount.error)
    ELSE LET n == Len(amount.digits)
             wholePart == SubSeq(amount.digits, 1, n - STABLECOIN_DECIMALS)
             fractionalPart == StripLeadingZeros(SliceLast(amount.digits, STABLECOIN_DECIMALS))
         IN
         IF fractionalPart = <<>> THEN Gives(BigIntToString(amount.neg, wholePart))
         ELSE LET fractionalStr == PadStart(BigIntToString(amount.neg, fractionalPart),
                                            STABLECOIN_DECIMALS, "0")
                  trimmedFractional == StripTrailingZeros(fractionalStr) IN
              Gives((BigIntToString(amount.neg, wholePart) \o <<".">>) \o trimmedFractional)

\* Non-negative amounts written with at most six decimal places, from the
\* smallest unit up to amounts whose raw value passes 2^53 and 10^21.
PlainAmountInputs ==
    {<<"1", "0", "0", ".", "5", "0">>,
     <<"1", "0", "0">>,
     <<"0">>,
     <<"0", ".", "0", "0", "0", "0", "0", "1">>,
     <<"1", ".", "5">>,
     <<"0", ".", "5">>,
     <<".", "5">>,
     <<"5", ".">>,
     <<"0", "0", ".", "5", "0">>,
     <<"1", "2", "3", "4", "5", "6", ".", "7", "8", "9", "0", "1", "2">>,
     <<"0", ".", "1">>,
     <<"0", ".", "3">>,
     <<"1", ".", "1", "0">>,
     <<"2", "2", "5", "1", "7", "9", "9", "8", "1", "3", ".", "6", "8", "5", "2", "4", "9">>,
     <<"4", "5", "0", "3", "5", "9", "9", "6", "2", "7", ".", "3", "7", "0", "4", "9", "7">>,
     <<"9", "0", "0", "7", "1", "9", "9", "2", "5", "4", ".", "7", "4", "0", "9", "9", "3">>,
     <<"9", "0", "0", "7", "1", "9", "9", "2", "5", "4", ".", "7", "4", "0", "9", "9", "2">>,
     <<"1", "0", "0", "0", "0", "0", "0", "0", "0", "0", "0", "0", "0", "0", "0", "0">>,
     <<"9", "9", "9", "9", "9", "9", "9", "9", "9", "9", "9", "9", "9", "9", "9", ".", "9", "9", "9", "9", "9", "9">>,
     <<"1", ".", "0", "0", "5">>}

\* Amounts written with more than six decimal places: ties in the seventh
\* place, values just above and below a tie, of either sign.
FineAmountInputs ==
    {<<"0", ".", "0", "0", "0", "0", "0", "0", "5">>,
     <<"0", ".", "0", "0", "0", "0", "0", "1", "5">>,
     <<"1", ".", "0", "0", "0", "0", "0", "0", "5">>,
     <<"1", ".", "0", "0", "0", "0", "0", "1", "5">>,
     <<"1", ".", "0", "0", "0", "0", "0", "2", "5">>,
     <<"4", ".", "0", "0", "0", "0", "0", "0", "5">>,
     <<"1", "6", ".", "0", "0", "0", "0", "0", "0", "5">>,
     <<"0", ".", "1", "2", "3", "4", "5", "6", "5">>,
     <<"-", "0", ".", "0", "0", "0", "0", "0", "1", "5">>,
     <<"-", "0", ".", "0", "0", "0", "0", "0", "0", "5">>,
     <<"-", "1", ".", "0", "0", "0", "0", "0", "0", "5">>,
     <<"-", "1", ".", "0", "0", "0", "0", "0", "2", "5">>,
     <<"1", ".", "0", "0", "0", "0", "0", "0", "9">>,
     <<"1", ".", "0", "0", "0", "0", "0", "0", "1">>,
     <<"1", ".", "0", "0", "0", "0", "0", "0", "4", "9">>,
     <<"1", ".", "0", "0", "0", "0", "0", "0", "5", "1">>,
     <<"-", "1", ".", "0", "0", "0", "0", "0", "0", "9">>,
     <<"0", ".", "0", "0", "0", "0", "0", "0", "4">>,
     <<"-", "0", ".", "0", "0", "0", "0", "0", "0", "4">>,
     <<"3", "3", ".", "3", "3", "3", "3", "3", "3", "5">>,
     <<"8", ".", "0", "0", "0", "0", "0", "0", "5">>}

\* Signed amounts, an amount followed by other text, and text that is no number.
OtherAmountInputs ==
    {<<"-", "2", ".", "5">>,
     <<" ", "7", ".", "2", "5", "a", "b", "c">>,
     <<"+", "3">>,
     <<"-", "0">>,
     <<"a", "b", "c">>,
     <<>>}

\* The raw amounts fromRawAmount is applied to directly.
RawAmountInputs ==
    {<<"1", "0", "0", "0", "0", "0", "0", "0", "0">>,
     <<"1", "0", "0", "5", "0", "0", "0", "0", "0">>,
     <<"1">>,
     <<"1", "5", "0", "0", "0", "0", "0">>,
     <<"0">>,
     <<>>,
     <<"-", "1", "5", "0", "0", "0", "0", "0">>,
     <<"-", "5", "0", "0", "0", "0", "0">>,
     <<"-", "1">>,
     <<"1", "e", "+", "2", "1">>,
     <<"1", "2", "x">>,
     <<"0", "0", "0", "1", "0", "0">>,
     <<"9", "9", "9", "9", "9", "9">>,
     <<"1", "0", "0", "0", "0", "0", "0">>,
     <<" ", "4", "2", " ">>,
     <<"-", "0">>,
     <<"+", "7", "0", "0", "0", "0", "0", "1">>,
     <<"-">>}

InitAmount ==
    /\ QuietClient
    /\ util \in {[fn |-> "toRawAmount", args |-> <<amount>>, out |-> <<>>] :
                    amount \in (PlainAmountInputs \cup FineAmountInputs) \cup OtherAmountInputs}
                \cup {[fn |-> "fromRawAmount", args |-> <<rawAmount>>, out |-> <<>>] :
                         rawAmount \in RawAmountInputs}

ToRawAmountCall ==
    /\ util.fn = "toRawAmount" /\ util.out = <<>>
    /\ util' = [util EXCEPT !.out = <<toRawAmount(util.args[1])>>]
    /\ UNCHANGED clientVarsOnly

FromRawAmountCall ==
    /\ util.fn = "fromRawAmount" /\ util.out = <<>>
    /\ util' = [util EXCEPT !.out = <<fromRawAmount(util.args[1])>>]
    /\ UNCHANGED clientVarsOnly

\* The raw amount just computed is converted back.
RoundTripCall ==
    /\ util.fn = "toRawAmount" /\ util.out # <<>> /\ util.out[1].error = None
    /\ util' = [fn |-> "fromRawAmount", args |-> <<util.out[1].value>>,
                out |-> <<fromRawAmount(util.out[1].value)>>]
    /\ UNCHANGED clientVarsOnly

NextAmount == ToRawAmountCall \/ FromRawAmountCall \/ RoundTripCall

SpecAmount == InitAmount /\ [][NextAmount]_vars

(***************************************************************************)
(* CctpClient.getSupportedRoutes: the sources are the keys of the token    *)
(* messenger table, the destinations the keys of the message transmitter   *)
(* table; a source with no destination is left out.                        *)
(***************************************************************************)
DestinationsOf(source, tables) ==
    {dest \in tables.messageTransmitter :
        source # dest /\ isRouteSupported(source, dest) = "true"}

\* A listing that leaves the route table out.
getSupportedRoutesUnfiltered(tables) ==
    {[source |-> source, destinations |-> tables.messageTransmitter \ {source}] :
        source \in tables.tokenMessenger}

getSupportedRoutes(tables) ==
    {[source |-> source, destinations |-> DestinationsOf(source, tables)] :
        source \in {s \in tables.tokenMessenger : DestinationsOf(s, tables) # {}}}

\* The network identifiers a client is constructed with: every network of
\* constants/networks.ts and one that is none.
RouteNetworkInputs == SupportedNetworks \cup {"bitcoin"}

InitRoutes ==
    /\ QuietClient
    /\ util = [fn |-> "getSupportedRoutes", args |-> <<>>, out |-> <<>>]

GetSupportedRoutesCall ==
    /\ util.fn = "getSupportedRoutes" /\ util.out = <<>>
    /\ util' = [util EXCEPT !.out = <<getSupportedRoutes(registry)>>]
    /\ UNCHANGED clientVarsOnly

\* new CctpClient(config) on a pair of networks, once the list was obtained.
ConstructOnRoute(config) ==
    /\ util.fn = "getSupportedRoutes" /\ util.out # <<>>
    /\ client = NoClient
    /\ client' = [CctpClientConstructor(config) EXCEPT !.instance = client.instance + 1]
    /\ UNCHANGED <<registry, calls, caller, srcChain, attested, dstChain, usedNonces,
                   completed, poll, util>>

NextRoutes ==
    \/ GetSupportedRoutesCall
    \/ \E source \in RouteNetworkInputs, destination \in RouteNetworkInputs,
          url \in RpcUrlInputs :
          ConstructOnRoute([sourceNetwork |-> source, destinationNetwork |-> destination,
                            destinationRpcUrl |-> url])

SpecRoutes == InitRoutes /\ [][NextRoutes]_vars

(***************************************************************************)
(* constants/domains.ts: getSupportedDestinations, and the two route       *)
(* functions called on their own.  CCTP_ROUTES[source] || [] is the array  *)
(* of an own key, the inherited function of an inherited key (not an       *)
(* array), the empty array otherwise.                                      *)
(***************************************************************************)
getSupportedDestinations(source) ==
    IF source \in DOMAIN CCTP_ROUTES
    THEN [array |-> TRUE, items |-> CCTP_ROUTES[source]]
    ELSE IF source \in PrototypeKeys
         THEN [array |-> FALSE, items |-> <<>>]
         ELSE [array |-> TRUE, items |-> <<>>]

RouteNameInputs == RouteNetworkInputs \cup {"unknown", "constructor", "toString"}

InitRouteTable ==
    /\ QuietClient
    /\ util \in
          {[fn |-> "isRouteSupported", args |-> <<source, destination>>, out |-> <<>>] :
              source \in RouteNameInputs, destination \in RouteNameInputs}
          \cup
          {[fn |-> "getSupportedDestinations", args |-> <<source>>, out |-> <<>>] :
              source \in RouteNameInputs}

IsRouteSupportedCall ==
    /\ util.fn = "isRouteSupported" /\ util.out = <<>>
    /\ util' = [util EXCEPT !.out = <<isRouteSupported(util.args[1], util.args[2])>>]
    /\ UNCHANGED clientVarsOnly

GetSupportedDestinationsCall ==
    /\ util.fn = "getSupportedDestinations" /\ util.out = <<>>
    /\ util' = [util EXCEPT !.out = <<getSupportedDestinations(util.args[1])>>]
    /\ UNCHANGED clientVarsOnly

NextRouteTable == IsRouteSupportedCall \/ GetSupportedDestinationsCall

SpecRouteTable == InitRouteTable /\ [][NextRouteTable]_vars

(***************************************************************************)
(* The attestation queries of a client made from the CCTP credential:      *)
(* Circle.execute reads sourceNetwork, destinationNetwork, the RPC URLs    *)
(* and the private key of the credential and passes them to                *)
(* createCctpClient; executeCctp calls getTransferStatus or getAttestation *)
(* on the client.  util.args holds the credential's attestationServiceUrl, *)
(* then the message hash and the HTTP response; util.out the requests sent *)
(* and how the operation ended.                                            *)
(***************************************************************************)
AttestAttempts == 2

CustomAttestationUrl == "attestation.example.org"

AttestationUrlInputs == {"", CustomAttestationUrl}

Request(host) == [kind |-> "request", host |-> host, value |-> <<>>]

Settled(kind, value) == [kind |-> kind, host |-> None, value |-> <<value>>]

Requests(events) == SelectSeq(events, LAMBDA e : e.kind = "request")

\* constants/domains.ts: average transfer times in minutes.
CCTP_TRANSFER_TIMES ==
    ("ethereum" :> 15) @@ ("avalanche" :> 3) @@ ("optimism" :> 3) @@ ("arbitrum" :> 3) @@
    ("noble" :> 5) @@ ("solana" :> 1) @@ ("base" :> 3) @@ ("polygon" :> 5)

estimateTransferTime(source, destination) ==
    IF source \in DOMAIN CCTP_TRANSFER_TIMES THEN CCTP_TRANSFER_TIMES[source] ELSE 20

\* The value getTransferStatus returns for what getAttestation resolved to.
getTransferStatus(result) ==
    [attestationStatus |-> result.status, attestation |-> result.attestation,
     estimatedTime |-> IF result.status = "pending" THEN 15 ELSE 0]

InitAttest ==
    /\ QuietClient
    /\ util = IdleUtil

\* Circle.execute, cctp branch: createCctpClient from the credential.
CreateCctpClient(credentials) ==
    /\ client = NoClient /\ util = IdleUtil
    /\ client' = [CctpClientConstructor(
                      [sourceNetwork |-> credentials.sourceNetwork,
                       destinationNetwork |-> credentials.destinationNetwork,
                       destinationRpcUrl |-> credentials.destinationRpcUrl])
                    EXCEPT !.instance = client.instance + 1]
    /\ util' = [fn |-> "createCctpClient", args |-> <<credentials.attestationServiceUrl>>,
                out |-> <<>>]
    /\ UNCHANGED <<registry, calls, caller, srcChain, attested, dstChain, usedNonces,
                   completed, poll>>

\* executeCctp: getTransferStatus / getAttestation, one fetch.
ExecuteCctpAttestation(operation, messageHash, response) ==
    /\ client.constructed /\ util.fn = "createCctpClient"
    /\ LET fetched == fetchAttestation(response, isTestnet)
           value == IF operation = "getTransferStatus"
                    THEN getTransferStatus(fetched)
                    ELSE [status |-> fetched.status, attestation |-> fetched.attestation] IN
       util' = [fn |-> operation,
                args |-> util.args \o <<messageHash, response>>,
                out |-> <<Request(fetched.host),
                          IF fetched.raised THEN Settled("thrown", fetched.status)
                          ELSE Settled("returned", value)>>]
    /\ UNCHANGED clientVarsOnly

\* CctpClient.waitForAttestation(messageHash, maxAttempts).
WaitForAttestationCall(messageHash, maxAttempts) ==
    /\ client.constructed /\ util.fn = "createCctpClient" /\ poll.pc = "idle"
    /\ poll' = waitForAttestationLoop(
                  [IdlePoll EXCEPT !.testnet = isTestnet, !.maxAttempts = maxAttempts])
    /\ util' = [util EXCEPT !.fn = "waitForAttestation", !.args = @ \o <<messageHash>>]
    /\ UNCHANGED <<registry, client, calls, caller, srcChain, attested, dstChain, usedNonces,
                   completed>>

WaitFetch(response) ==
    /\ util.fn = "waitForAttestation" /\ poll.pc = "fetch"
    /\ poll' = waitForAttestationFetch(poll, response)
    /\ util' = [util EXCEPT !.out = Append(@, Request(fetchAttestation(response, poll.testnet).host))]
    /\ UNCHANGED <<registry, client, calls, caller, srcChain, attested, dstChain, usedNonces,
                   completed>>

WaitSleep ==
    /\ util.fn = "waitForAttestation" /\ poll.pc = "sleep"
    /\ poll' = waitForAttestationSlept(poll)
    /\ UNCHANGED clientVars

WaitResponses ==
    {HttpResponse(404, None, NoPayload),
     HttpResponse(200, "complete", Attestation(1)),
     HttpResponse(500, None, NoPayload)}

NextAttest ==
    \/ \E source \in RouteNetworkInputs, destination \in RouteNetworkInputs,
          url \in AttestationUrlInputs :
          CreateCctpClient([sourceNetwork |-> source, destinationNetwork |-> destination,
                            destinationRpcUrl |-> EmptyString,
                            attestationServiceUrl |-> url])
    \/ \E operation \in {"getTransferStatus", "getAttestation"}, response \in PollResponses :
          ExecuteCctpAttestation(operation, Keccak256(1), response)
    \/ \E maxAttempts \in 0..AttestAttempts : WaitForAttestationCall(Keccak256(1), maxAttempts)
    \/ \E response \in WaitResponses : WaitFetch(response)
    \/ WaitSleep

SpecAttest == InitAttest /\ [][NextAttest]_vars

(***************************************************************************)
(* transport/onchainClient.ts: transfer and batchTransfer.  calls[1] is    *)
(* the batchTransfer invocation, its tx the index of the transfer the loop *)
(* is at; util.args holds the transfers and whether the client has a       *)
(* wallet, util.out the results pushed so far; srcChain the transactions   *)
(* the token contract was sent, in the order they were submitted.          *)
(***************************************************************************)
MaxBatch == 3

TransferInputs ==
    {[to |-> EvmAddr, amount |-> <<"1", "0">>],
     [to |-> EvmAddr, amount |-> <<"2", ".", "5">>],
     [to |-> ShortEvmAddr, amount |-> <<"1", "0">>],
     [to |-> EvmAddr, amount |-> <<"a", "b", "c">>]}

BatchInputs == UNION {[1..n -> TransferInputs] : n \in 0..MaxBatch}

\* transfer(params), up to the call of contract.transfer: the error it
\* raises, or none.  toRawAmount raises when parseFloat(amount) is NaN.
transferChecks(params, network, hasWallet) ==
    IF ~hasWallet THEN "Private key required for transfers"
    ELSE IF ~validateAddress(params.to, network) THEN "Invalid recipient address"
    ELSE IF network \notin USDC_CONTRACTS THEN "USDC not available"
    ELSE IF ParseFloatIsNaN(params.amount) THEN "Invalid amount"
    ELSE None

\* for (const transfer of transfers): the next transfer, or the return.
batchTransferLoop(c, transfers, network, hasWallet, results) ==
    IF c.tx > Len(transfers)
    THEN Returned(c, results)
    ELSE LET error == transferChecks(transfers[c.tx], network, hasWallet) IN
         IF error # None THEN Thrown(c, error) ELSE [c EXCEPT !.pc = "submit"]

\* A loop that goes on to the next transfer when tx.wait() failed.
batchTransferWaitedSkipping(c, outcome, transfers, network, hasWallet, results) ==
    batchTransferLoop([c EXCEPT !.tx = @ + 1], transfers, network, hasWallet, results)

\* await tx.wait() settled: the result is pushed and the loop goes on, or
\* the error leaves transfer and batchTransfer.
batchTransferWaited(c, outcome, transfers, network, hasWallet, results) ==
    IF outcome = "mined"
    THEN batchTransferLoop([c EXCEPT !.tx = @ + 1], transfers, network, hasWallet, results)
    ELSE Thrown(c, outcome)

InitBatch ==
    /\ QuietClient
    /\ util \in {[fn |-> "batchTransfer", args |-> <<transfers, hasWallet>>, out |-> <<>>] :
                    transfers \in BatchInputs, hasWallet \in BOOLEAN}

BatchTransferCall ==
    /\ util.fn = "batchTransfer" /\ calls[1].pc = "idle"
    /\ calls' = [calls EXCEPT ![1] =
                    batchTransferLoop([IdleCall EXCEPT !.op = "batchTransfer", !.tx = 1],
                                      util.args[1], "ethereum", util.args[2], <<>>)]
    /\ UNCHANGED <<registry, client, caller, srcChain, attested, dstChain, usedNonces,
                   completed, poll, util>>

\* await contract.transfer(to, rawAmount): the node takes the transaction or
\* the call raises.
BatchSubmitSettles(outcome) ==
    /\ calls[1].op = "batchTransfer" /\ calls[1].pc = "submit"
    /\ IF outcome = "accepted"
       THEN /\ srcChain' = Append(srcChain,
                  [item |-> calls[1].tx, to |-> util.args[1][calls[1].tx].to,
                   amount |-> util.args[1][calls[1].tx].amount,
                   status |-> "pending"])
            /\ calls' = [calls EXCEPT ![1].pc = "wait"]
       ELSE /\ srcChain' = srcChain
            /\ calls' = [calls EXCEPT ![1] = Thrown(@, outcome)]
    /\ UNCHANGED <<registry, client, caller, attested, dstChain, usedNonces, completed, poll,
                   util>>

\* await tx.wait(): mined, reverted (tx.wait raises CALL_EXCEPTION), or the
\* provider fails while the transaction is still pending.
BatchWaitSettles(outcome) ==
    /\ calls[1].op = "batchTransfer" /\ calls[1].pc = "wait"
    /\ LET transfer == util.args[1][calls[1].tx]
           results == IF outcome = "mined"
                      THEN Append(util.out, [txHash |-> Len(srcChain), to |-> transfer.to,
                                             amount |-> transfer.amount, token |-> "USDC"])
                      ELSE util.out IN
       /\ srcChain' = [srcChain EXCEPT ![Len(srcChain)].status =
                          IF outcome = "mined" THEN "mined"
                          ELSE IF outcome = "CALL_EXCEPTION" THEN "reverted" ELSE @]
       /\ util' = [util EXCEPT !.out = results]
       /\ calls' = [calls EXCEPT ![1] =
                       batchTransferWaited(@, outcome, util.args[1], "ethereum", util.args[2],
                                           results)]
    /\ UNCHANGED <<registry, client, caller, attested, dstChain, usedNonces, completed, poll>>

NextBatch ==
    \/ BatchTransferCall
    \/ \E outcome \in {"accepted", "SERVER_ERROR"} : BatchSubmitSettles(outcome)
    \/ \E outcome \in {"mined", "CALL_EXCEPTION", "SERVER_ERROR"} : BatchWaitSettles(outcome)

SpecBatch == InitBatch /\ [][NextBatch]_vars

(***************************************************************************)
(* Circle.execute: the loop over the input items.  calls[1] is the run,    *)
(* its tx the index i of the item the loop is at (from 0); util.args holds *)
(* items.length and continueOnFail(), util.out is returnData; srcChain is  *)
(* the list of items a handler was run for, in the order they were run.    *)
(***************************************************************************)
MaxItems == 4

\* for (let i = 0; i < items.length; i++)
executeLoop(c, length, returnData) ==
    IF c.tx < length THEN [c EXCEPT !.pc = "item"] ELSE Returned(c, <<returnData>>)

\* A catch block that rethrows whatever continueOnFail() says.
executeItemSettledAborting(c, outcome, length, continueOnFail, returnData) ==
    IF outcome.error = None
    THEN executeLoop([c EXCEPT !.tx = @ + 1], length, returnData)
    ELSE [Thrown(c, outcome.error) EXCEPT !.failedIn = "NodeOperationError"]

\* The try block ended for item i: returnData was pushed to, and the loop
\* goes on, or NodeOperationError is thrown with itemIndex i (kept in tx).
executeItemSettled(c, outcome, length, continueOnFail, returnData) ==
    IF outcome.error = None \/ continueOnFail
    THEN executeLoop([c EXCEPT !.tx = @ + 1], length, returnData)
    ELSE [Thrown(c, outcome.error) EXCEPT !.failedIn = "NodeOperationError"]

\* What is pushed to returnData for item i.
executeEntry(i, outcome) ==
    IF outcome.error = None
    THEN [json |-> [result |-> outcome.value, error |-> None], pairedItem |-> -1]
    ELSE [json |-> [result |-> <<>>, error |-> outcome.error], pairedItem |-> i]

\* How the handler of an item ends: a result, an Error, a thrown non-Error.
HandlerOutcomes(i) ==
    {Gives(<<i>>), Throws("Invalid amount"), Throws("Unknown error")}

InitExecute ==
    /\ QuietClient
    /\ util \in {[fn |-> "execute", args |-> <<length, continueOnFail>>, out |-> <<>>] :
                    length \in 0..MaxItems, continueOnFail \in BOOLEAN}

ExecuteCall ==
    /\ util.fn = "execute" /\ calls[1].pc = "idle"
    /\ calls' = [calls EXCEPT ![1] =
                    executeLoop([IdleCall EXCEPT !.op = "execute", !.tx = 0],
                                util.args[1], util.out)]
    /\ UNCHANGED <<registry, client, caller, srcChain, attested, dstChain, usedNonces,
                   completed, poll, util>>

ExecuteItemSettles(outcome) ==
    /\ calls[1].op = "execute" /\ calls[1].pc = "item"
    /\ LET i == calls[1].tx
           returnData == IF outcome.error = None \/ util.args[2]
                         THEN Append(util.out, executeEntry(i, outcome))
                         ELSE util.out IN
       /\ srcChain' = Append(srcChain, i)
       /\ util' = [util EXCEPT !.out = returnData]
       /\ calls' = [calls EXCEPT ![1] =
                       executeItemSettled(@, outcome, util.args[1], util.args[2], returnData)]
    /\ UNCHANGED <<registry, client, caller, attested, dstChain, usedNonces, completed, poll>>

NextExecute ==
    \/ ExecuteCall
    \/ \E outcome \in HandlerOutcomes(calls[1].tx) : ExecuteItemSettles(outcome)

SpecExecute == InitExecute /\ [][NextExecute]_vars

(***************************************************************************)
(* transport/circleApi.ts: the token bucket of CircleApiClient.  Time is   *)
(* counted in ticks of 200 ms and tokens in thirds of a token, so that the *)
(* refill of RATE_LIMITS.default / 60 = 5/3 tokens per whole second and    *)
(* the wait of (1 - tokens) * 600 ms are whole numbers.  util.rateLimiter  *)
(* is this.rateLimiter, util.now the clock, util.sent the number of        *)
(* requests handed to axios; calls[p] is the p-th concurrent get / post /  *)
(* put / delete call.                                                      *)
(***************************************************************************)
MaxCallers == 3
MaxTime == 6

RATE_LIMITS == [default |-> 100]

TicksPerSecond == 5
Thirds == 3

IdleRequest == [pc |-> "idle", waitTime |-> 0, wakeAt |-> 0, sentAt |-> -1]

\* checkRateLimit up to the test of tokens < 1: the refilled bucket.
Refilled(rateLimiter, now) ==
    LET elapsed == now - rateLimiter.lastRefill
        refillAmount == (elapsed \div TicksPerSecond) * ((RATE_LIMITS.default * Thirds) \div 60)
        total == rateLimiter.tokens + refillAmount IN
    [tokens |-> IF total < RATE_LIMITS.default * Thirds THEN total
                ELSE RATE_LIMITS.default * Thirds,
     lastRefill |-> now]

\* The constructor, followed by burst requests within the first tick.
InitRateLimit ==
    /\ registry = ShippedRegistry
    /\ client = NoClient
    /\ calls = [p \in 1..MaxCallers |-> IdleRequest]
    /\ caller = [budget |-> 0, serial |-> FALSE, configs |-> {}, params |-> {}]
    /\ srcChain = <<>>
    /\ attested = {}
    /\ dstChain = <<>>
    /\ usedNonces = {}
    /\ completed = {}
    /\ poll = IdlePoll
    /\ \E burst \in {0, RATE_LIMITS.default - 1, RATE_LIMITS.default} :
          util = [fn |-> "checkRateLimit", args |-> <<>>, out |-> <<>>,
                  rateLimiter |-> [tokens |-> (RATE_LIMITS.default - burst) * Thirds,
                                   lastRefill |-> 0],
                  now |-> 0, sent |-> burst]

\* get / post / put / delete: checkRateLimit runs to its await, or, with a
\* token in the bucket, to its end, and the request is handed to axios.
CheckRateLimit(p) ==
    /\ util.fn = "checkRateLimit" /\ calls[p].pc = "idle"
    /\ LET refilled == Refilled(util.rateLimiter, util.now) IN
       IF refilled.tokens < 1 * Thirds
       THEN /\ util' = [util EXCEPT !.rateLimiter = refilled]
            /\ calls' = [calls EXCEPT ![p].pc = "waiting",
                                      ![p].waitTime = 1 * Thirds - refilled.tokens,
                                      ![p].wakeAt = util.now + (1 * Thirds - refilled.tokens)]
       ELSE /\ util' = [util EXCEPT !.rateLimiter = [refilled EXCEPT !.tokens = @ - 1 * Thirds],
                                    !.sent = @ + 1]
            /\ calls' = [calls EXCEPT ![p].pc = "sent", ![p].sentAt = util.now]
    /\ UNCHANGED <<registry, client, caller, srcChain, attested, dstChain, usedNonces,
                   completed, poll>>

\* The setTimeout of a waiting call fired: tokens = 1, tokens -= 1, and the
\* request is handed to axios.
TimerFires(p) ==
    /\ util.fn = "checkRateLimit" /\ calls[p].pc = "waiting"
    /\ util.now >= calls[p].wakeAt
    /\ util' = [util EXCEPT !.rateLimiter.tokens = 1 * Thirds - 1 * Thirds, !.sent = @ + 1]
    /\ calls' = [calls EXCEPT ![p].pc = "sent", ![p].sentAt = util.now]
    /\ UNCHANGED <<registry, client, caller, srcChain, attested, dstChain, usedNonces,
                   completed, poll>>

\* 200 ms pass.
Tick ==
    /\ util.fn = "checkRateLimit" /\ util.now < MaxTime
    /\ util' = [util EXCEPT !.now = @ + 1]
    /\ UNCHANGED clientVarsOnly

NextRateLimit ==
    \/ \E p \in 1..MaxCallers : CheckRateLimit(p)
    \/ \E p \in 1..MaxCallers : TimerFires(p)
    \/ Tick

SpecRateLimit == InitRateLimit /\ [][NextRateLimit]_vars

(***************************************************************************)
(* CircleTrigger.webhookMethods.  util.webhookId is the webhookId of the   *)
(* node's static data (0: not set), util.subscriptions the ids registered  *)
(* at Circle for the node's webhook URL, util.created the ids this node    *)
(* was given by createSubscription, util.remoteCalls the number of         *)
(* requests sent; util.fn is the hook called last, util.out what it        *)
(* returned.                                                               *)
(***************************************************************************)
MaxHooks == 4

InitTrigger ==
    /\ QuietClient
    /\ util = [fn |-> None, args |-> <<>>, out |-> <<>>, webhookId |-> 0,
               subscriptions |-> {}, created |-> {}, remoteCalls |-> 0, hooks |-> 0]

\* checkExists: subscriptions.some(sub => sub.endpoint === webhookUrl).
CheckExistsHook(outcome) ==
    /\ util.hooks < MaxHooks
    /\ util' = [util EXCEPT !.fn = "checkExists", !.hooks = @ + 1, !.remoteCalls = @ + 1,
                            !.out = IF outcome = "ok" THEN <<util.subscriptions # {}>>
                                    ELSE <<"thrown">>]
    /\ UNCHANGED clientVarsOnly

\* create: createSubscription, then webhookData.webhookId = result.id.
CreateHook(outcome) ==
    /\ util.hooks < MaxHooks
    /\ LET id == Cardinality(util.created) + 1 IN
       util' = IF outcome = "ok"
               THEN [util EXCEPT !.fn = "create", !.hooks = @ + 1, !.remoteCalls = @ + 1,
                                 !.subscriptions = @ \cup {id}, !.created = @ \cup {id},
                                 !.webhookId = id, !.out = <<TRUE>>]
               ELSE [util EXCEPT !.fn = "create", !.hooks = @ + 1, !.remoteCalls = @ + 1,
                                 !.out = <<"thrown">>]
    /\ UNCHANGED clientVarsOnly

\* delete: deleteSubscription(webhookData.webhookId) when an id is stored;
\* false when the request fails (the id is not registered, or the network).
DeleteHook(outcome) ==
    /\ util.hooks < MaxHooks
    /\ util' =
          IF util.webhookId = 0
          THEN [util EXCEPT !.fn = "delete", !.hooks = @ + 1, !.out = <<TRUE>>]
          ELSE IF outcome = "ok" /\ util.webhookId \in util.subscriptions
          THEN [util EXCEPT !.fn = "delete", !.hooks = @ + 1, !.remoteCalls = @ + 1,
                            !.subscriptions = @ \ {util.webhookId}, !.out = <<TRUE>>]
          ELSE [util EXCEPT !.fn = "delete", !.hooks = @ + 1, !.remoteCalls = @ + 1,
                            !.out = <<FALSE>>]
    /\ UNCHANGED clientVarsOnly

NextTrigger ==
    \E outcome \in {"ok", "error"} :
        \/ CheckExistsHook(outcome)
        \/ CreateHook(outcome)
        \/ DeleteHook(outcome)

SpecTrigger == InitTrigger /\ [][NextTrigger]_vars

(***************************************************************************)
(* OnchainClient.isBlacklisted and the Check Blacklist / Check Address     *)
(* operations.  util.args holds the address, the token, the client's       *)
(* network, whether the token contract has the address on its blacklist,   *)
(* and how the provider answers; util.out what the caller receives.        *)
(***************************************************************************)
EURC_CONTRACTS == {"ethereum", "polygon", "avalanche", "base", "stellar"}

\* getTokenContract(token) and contract.isBlacklisted(address): the value
\* the contract reported, or the error raised on the way to it.
contractIsBlacklisted(address, token, network, listed, outcome) ==
    IF network \notin (IF token = "USDC" THEN USDC_CONTRACTS ELSE EURC_CONTRACTS)
    THEN Throws("not available")
    ELSE IF network \notin EVM_NETWORKS \/ ~EvmRegexTest(address)
    THEN Throws("INVALID_ARGUMENT")
    ELSE IF outcome # "answer" THEN Throws(outcome)
    ELSE Gives(listed)

\* try { return await contract.isBlacklisted(address) } catch { return false }
isBlacklisted(address, token, network, listed, outcome) ==
    LET read == contractIsBlacklisted(address, token, network, listed, outcome) IN
    IF read.error = None THEN read ELSE Gives(FALSE)

InitBlacklist ==
    /\ QuietClient
    /\ util \in {[fn |-> fn, args |-> <<address, token, network, listed, outcome>>,
                  out |-> <<>>] :
                    fn \in {"isBlacklisted", "checkBlacklist", "checkAddress"},
                    address \in {EvmAddr, ShortEvmAddr}, token \in {"USDC", "EURC"},
                    network \in SupportedNetworks, listed \in BOOLEAN,
                    outcome \in {"answer", "SERVER_ERROR"}}

IsBlacklistedCall ==
    /\ util.fn = "isBlacklisted" /\ util.out = <<>>
    /\ util' = [util EXCEPT !.out =
                   <<isBlacklisted(util.args[1], util.args[2], util.args[3], util.args[4],
                                   util.args[5])>>]
    /\ UNCHANGED clientVarsOnly

\* executeOnchain, case 'checkBlacklist' / 'checkAddress'.
CheckBlacklistOperation ==
    /\ util.fn \in {"checkBlacklist", "checkAddress"} /\ util.out = <<>>
    /\ LET answer == isBlacklisted(util.args[1], util.args[2], util.args[3], util.args[4],
                                   util.args[5]) IN
       util' = [util EXCEPT !.out =
                   <<IF answer.error # None THEN answer
                     ELSE Gives([address |-> util.args[1], isBlacklisted |-> answer.value,
                                 token |-> util.args[2]])>>]
    /\ UNCHANGED clientVarsOnly

NextBlacklist == IsBlacklistedCall \/ CheckBlacklistOperation

SpecBlacklist == InitBlacklist /\ [][NextBlacklist]_vars

(***************************************************************************)
(* The Circle node: the operations it offers for each resource, and the    *)
(* dispatch of execute to executeCircleApi, executeOnchain, executeCctp    *)
(* and executeUtility.                                                     *)
(***************************************************************************)
OperationLists ==
    [usdc |-> {"getBalance", "transfer", "batchTransfer", "getTotalSupply",
               "getContractAddress", "approve", "getAllowance", "getTransferHistory",
               "checkBlacklist", "getPrice"},
     eurc |-> {"getBalance", "transfer", "getTotalSupply", "getContractAddress",
               "checkBlacklist"},
     cctp |-> {"initiateTransfer", "getTransferStatus", "getAttestation", "completeTransfer",
               "getSupportedRoutes", "getDomainId"},
     accounts |-> {"createWallet", "getWallet", "listWallets", "createTransfer",
                   "getTransfer", "listTransfers", "createAddress"},
     payments |-> {"getPayment", "listPayments", "listSettlements"},
     payouts |-> {"getPayout", "listPayouts", "listRecipients"},
     core |-> {"getConfiguration", "getBalances", "healthCheck"},
     webhooks |-> {"createSubscription", "listSubscriptions", "deleteSubscription"},
     crossChain |-> {"getSupportedChains", "getContractAddresses"},
     smartContract |-> {"getOwner", "getMasterMinter", "isPaused"},
     utility |-> {"convertUnits", "validateAddress", "getChainInfo", "getCurrentBlock",
                  "getGasPrice"},
     attestations |-> {"getLatest"},
     compliance |-> {"checkAddress"}]

\* The case labels of executeCircleApi, by resource.
CircleApiCases ==
    [accounts |-> {"createWallet", "getWallet", "listWallets", "getTransfer",
                   "listTransfers", "createAddress", "createTransfer"},
     payments |-> {"listPayments", "getPayment", "listSettlements"},
     payouts |-> {"listPayouts", "getPayout", "listRecipients"},
     core |-> {"getConfiguration", "getBalances", "healthCheck"},
     webhooks |-> {"createSubscription", "listSubscriptions", "deleteSubscription"}]

OnchainCases ==
    {"getBalance", "transfer", "batchTransfer", "getTotalSupply", "getContractAddress",
     "approve", "getAllowance", "getTransferHistory", "checkBlacklist", "checkAddress",
     "getOwner", "getMasterMinter", "isPaused", "getCurrentBlock", "getGasPrice", "getPrice"}

CctpCases ==
    {"initiateTransfer", "getTransferStatus", "getAttestation", "completeTransfer",
     "getSupportedRoutes", "getDomainId"}

UtilityCases ==
    {"convertUnits", "validateAddress", "getChainInfo", "getSupportedChains", "getLatest"}

\* The if / else-if chain of execute and the switch of the function it
\* calls: the handler that runs, or the error thrown, or no handler at all.
executeDispatch(resource, operation) ==
    IF resource \in DOMAIN CircleApiCases
    THEN IF operation \in CircleApiCases[resource]
         THEN [handler |-> "executeCircleApi", error |-> None]
         ELSE [handler |-> None, error |-> "Unknown operation"]
    ELSE IF resource \in {"usdc", "eurc", "smartContract", "compliance"}
    THEN IF operation \in OnchainCases
         THEN [handler |-> "executeOnchain", error |-> None]
         ELSE [handler |-> None, error |-> "Unknown onchain operation"]
    ELSE IF resource = "cctp"
    THEN IF operation \in CctpCases
         THEN [handler |-> "executeCctp", error |-> None]
         ELSE [handler |-> None, error |-> "Unknown CCTP operation"]
    ELSE IF resource \in {"utility", "crossChain", "attestations"}
    THEN IF operation \in UtilityCases
         THEN [handler |-> "executeUtility", error |-> None]
         ELSE [handler |-> None, error |-> "Unknown utility operation"]
    ELSE [handler |-> None, error |-> None]

InitDispatch ==
    /\ QuietClient
    /\ util \in {[fn |-> "execute", args |-> <<resource, operation>>, out |-> <<>>] :
                    resource \in DOMAIN OperationLists \cup {"unknown"},
                    operation \in UNION {OperationLists[r] : r \in DOMAIN OperationLists}}

ExecuteDispatch ==
    /\ util.fn = "execute" /\ Len(util.args) = 2 /\ util.out = <<>>
    /\ util' = [util EXCEPT !.out = <<executeDispatch(util.args[1], util.args[2])>>]
    /\ UNCHANGED clientVarsOnly

SpecDispatch == InitDispatch /\ [][ExecuteDispatch]_vars

BurnMethods == {"depositForBurn", "depositForBurnWithCaller"}

CountOf(seq, methods) == Cardinality({i \in DOMAIN seq : seq[i] \in methods})

\* C1: initiateTransfer with a destination address that validateAddress rejects
\* for the destination network raises the validation error and makes no call on
\* the chain: no burn method is called, no transaction exists, no receipt is
\* awaited, whatever the amount and the destinationCaller.
C1_InvalidDestinationNoChainCall ==
    \A s \in DOMAIN calls :
        (/\ calls[s].op = "initiateTransfer"
         /\ ~validateAddress(calls[s].params[1].destinationAddress, Config.destinationNetwork))
        => /\ calls[s].pc = "thrown"
           /\ calls[s].error = "Invalid destination address"
           /\ calls[s].chainCalls = <<>>
           /\ calls[s].tx = 0

\* C1's case: an EVM-shaped address given to a client whose destination is solana,
\* with a destinationCaller set, was rejected.
C1_Witness ==
    /\ client.constructed /\ Config.destinationNetwork = "solana"
    /\ calls[1].op = "initiateTransfer" /\ calls[1].pc = "thrown"
    /\ calls[1].params[1].destinationAddress = EvmAddr
    /\ calls[1].params[1].destinationCaller # EmptyString

\* C8: a client exists only for a supported route: a constructor call on a pair
\* outside the route table fails with no provider or wallet created, and every
\* invocation runs on a client whose route isRouteSupported accepts.
C8_ClientOnlyOnSupportedRoute ==
    /\ client.constructed =>
          isRouteSupported(Config.sourceNetwork, Config.destinationNetwork) = "true"
    /\ ~client.constructed =>
          /\ client.providers = 0
          /\ \A s \in DOMAIN calls : calls[s].pc = "idle"
          /\ srcChain = <<>> /\ dstChain = <<>>

\* C8's case: the constructor was called on an unsupported pair and failed.
C8_Witness ==
    /\ ~client.constructed
    /\ client.error = "CCTP route not supported"

C10_CompleteNeedsDestinationRpc ==
    \A s \in DOMAIN calls :
        (client.constructed /\ ~client.destinationWallet) =>
            /\ calls[s].op = "completeTransfer" =>
                  /\ calls[s].pc = "thrown"
                  /\ calls[s].error = "Destination RPC URL required to complete transfer"
                  /\ calls[s].chainCalls = <<>>
            /\ calls[s].op # "completeTransfer" =>
                  calls[s].error # "Destination RPC URL required to complete transfer"
            /\ dstChain = <<>>

\* C10's case: a client without destination RPC burned a message, the message
\* was attested, and completeTransfer with that message and attestation raised.
C10_Witness ==
    /\ client.constructed /\ ~client.destinationWallet
    /\ Mined(1) /\ 1 \in attested
    /\ calls[1].op = "completeTransfer" /\ calls[1].pc = "thrown"
    /\ calls[1].params[1] = [messageBytes |-> 1, attestation |-> Attestation(1)]
\* C2: no automatic retry.  One initiateTransfer calls a burn method (depositForBurn
\* or depositForBurnWithCaller, never both) at most once, one completeTransfer calls
\* receiveMessage at most once, so the chains hold no more transactions than there
\* were invocations; an invocation that made its call and is no longer running on a
\* failed submission or a reverted transaction has raised (or, for completeTransfer,
\* returned success false), never tried again.
C2_NoAutomaticRetry ==
    /\ \A s \in DOMAIN calls :
          /\ CountOf(calls[s].chainCalls, BurnMethods) <= 1
          /\ CountOf(calls[s].chainCalls, {"receiveMessage"}) <= 1
          /\ calls[s].op = "initiateTransfer" =>
                CountOf(calls[s].chainCalls, {"receiveMessage"}) = 0
          /\ calls[s].op = "completeTransfer" =>
                CountOf(calls[s].chainCalls, BurnMethods) = 0
          /\ calls[s].pc = "thrown" => calls[s].error # None
          /\ (/\ calls[s].op = "initiateTransfer" /\ calls[s].tx # 0
              /\ srcChain[calls[s].tx].state = "reverted" /\ calls[s].pc # "wait")
             => calls[s].pc = "thrown"
          /\ (/\ calls[s].op = "completeTransfer" /\ calls[s].tx # 0
              /\ dstChain[calls[s].tx].state = "reverted" /\ calls[s].pc # "wait")
             => \/ calls[s].pc = "thrown"
                \/ calls[s].pc = "returned" /\ ~calls[s].result[1].success
    /\ Len(srcChain) + Len(dstChain) <= MaxInvocations - caller.budget

\* C2's case: the node refused the burn submission; the invocation raised after
\* its single call and no transaction was added for it.
C2_Witness ==
    /\ calls[1].op = "initiateTransfer" /\ calls[1].pc = "thrown"
    /\ calls[1].error = "RPC_ERROR"
    /\ calls[1].chainCalls = <<"depositForBurn">>
    /\ srcChain = <<>>

StateRank(state) ==
    CASE state = "NotStarted" -> 0
      [] state = "Burned" -> 1
      [] state = "Attested" -> 2
      [] state = "Completed" -> 3

C4_ReplayOnlyAsRevert ==
    \A s \in DOMAIN calls :
        (/\ calls[s].op = "completeTransfer"
         /\ client.destinationWallet
         /\ HasAddress(registry.messageTransmitter, Config.destinationNetwork))
        => /\ calls[s].chainCalls # <<>>
           /\ calls[s].chainCalls[1] = "receiveMessage"
           /\ CountOf(calls[s].chainCalls, {"usedNonces"}) = 0
           /\ calls[s].pc = "thrown" => calls[s].error \in {"RPC_ERROR", "CALL_EXCEPTION"}
           /\ (calls[s].replay /\ calls[s].pc = "returned") => ~calls[s].result[1].success

\* C4's case: a message already completed was submitted again with its valid
\* attestation; the transaction went to the chain, reverted, and wait() raised.
C4_Witness ==
    /\ 1 \in completed
    /\ calls[1].op = "completeTransfer" /\ calls[1].replay
    /\ calls[1].params[1] = [messageBytes |-> 1, attestation |-> Attestation(1)]
    /\ calls[1].tx # 0 /\ dstChain[calls[1].tx].state = "reverted"
    /\ calls[1].pc = "thrown" /\ calls[1].error = "CALL_EXCEPTION"

PendingResponse(r) == r.code = 404 \/ (r.code = 200 /\ r.status = "pending")

CompleteResponse(r) == r.code = 200 /\ r.status = "complete" /\ r.attestation # NoPayload

EmptyCompleteResponse(r) == r.code = 200 /\ r.status = "complete" /\ r.attestation = NoPayload

HardFailure(r) == ~(r.code >= 200 /\ r.code < 300) /\ r.code # 404

\* C5: when the first complete response with a payload is the k-th, waitForAttestation
\* has returned that payload after exactly k fetches and k-1 sleeps, and fetches
\* nothing after it; a response of status complete without a payload does not
\* end the wait with a result.
C5_ReturnsAtFirstComplete ==
    LET r == poll.responses
        k == Len(poll.responses) IN
    /\ \A i \in 1..k : CompleteResponse(r[i]) =>
          /\ i = k
          /\ k <= poll.maxAttempts
          /\ poll.pc = "returned"
          /\ poll.result = r[k].attestation
          /\ poll.fetches = k
          /\ poll.sleeps = k - 1
    /\ poll.pc = "returned" => (k >= 1 /\ CompleteResponse(r[k]))
    /\ (k >= 1 /\ EmptyCompleteResponse(r[k])) =>
          /\ poll.pc \in {"sleep", "fetch", "timeout"}
          /\ poll.result = NoPayload

\* C5's case: waitFor(hash, 5, 10) with 404, 404, complete: three fetches, two sleeps.
C5_Witness ==
    /\ poll.maxAttempts = 5
    /\ poll.responses = <<HttpResponse(404, None, NoPayload), HttpResponse(404, None, NoPayload),
                          HttpResponse(200, "complete", Attestation(1))>>
    /\ poll.pc = "returned" /\ poll.fetches = 3 /\ poll.sleeps = 2

PollEnded == poll.pc \in {"returned", "timeout", "failed"}

\* C6 as stated: the timeout comes after exactly maxAttempts fetches and
\* maxAttempts - 1 sleeps, for every maxAttempts >= 0.
C6_TimeoutAfterMFetchesMMinusOneSleeps ==
    poll.pc = "timeout" =>
        /\ poll.fetches = poll.maxAttempts
        /\ poll.sleeps = poll.maxAttempts - 1

\* C6: waitForAttestation always ends; it never fetches more than maxAttempts
\* times; when no response completes or fails it raises the timeout after exactly
\* maxAttempts fetches, with maxAttempts - 1 sleeps when maxAttempts >= 1 and no
\* sleep when maxAttempts = 0.
C6_TerminatesWithinMaxAttempts ==
    /\ <>PollEnded
    /\ [](/\ poll.fetches <= poll.maxAttempts
          /\ poll.sleeps <= poll.fetches
          /\ poll.pc = "timeout" =>
                /\ poll.fetches = poll.maxAttempts
                /\ poll.sleeps = IF poll.maxAttempts = 0 THEN 0 ELSE poll.maxAttempts - 1
                /\ poll.error = "Attestation not available"
          /\ (/\ poll.pc \notin {"idle", "timeout"}
              /\ \A i \in DOMAIN poll.responses :
                    ~CompleteResponse(poll.responses[i]) /\ ~HardFailure(poll.responses[i]))
             => poll.fetches < poll.maxAttempts)

\* C6's case: waitFor(hash, 2, 10) with 404, 404: the timeout after two fetches.
C6_Witness ==
    /\ poll.maxAttempts = 2
    /\ poll.responses = <<HttpResponse(404, None, NoPayload), HttpResponse(404, None, NoPayload)>>
    /\ poll.pc = "timeout" /\ poll.fetches = 2 /\ poll.sleeps = 1

\* C7: fetchAttestation answers status pending for a 404 and raises for every other
\* response outside 2xx; in waitForAttestation a 404 does not end the poll by
\* failure, and a hard failure ends it at that fetch, whatever attempts remain.
C7_Only404IsPending ==
    /\ \A r \in PollResponses : \A testnet \in BOOLEAN :
          /\ r.code = 404 => (/\ ~fetchAttestation(r, testnet).raised
                              /\ fetchAttestation(r, testnet).status = "pending")
          /\ HardFailure(r) => fetchAttestation(r, testnet).raised
    /\ \A i \in DOMAIN poll.responses :
          /\ HardFailure(poll.responses[i]) =>
                /\ i = Len(poll.responses)
                /\ poll.pc = "failed"
                /\ poll.error = "Attestation fetch failed"
                /\ poll.fetches = i
                /\ poll.sleeps = i - 1
          /\ (poll.responses[i].code = 404 /\ i = Len(poll.responses)) => poll.pc # "failed"
    /\ poll.pc = "failed" => (poll.responses # <<>>
                              /\ HardFailure(poll.responses[Len(poll.responses)]))

\* C7's case: a 404 then a 500 with attempts left: the poll ended at the second fetch.
C7_Witness ==
    /\ poll.maxAttempts = 5
    /\ poll.responses = <<HttpResponse(404, None, NoPayload), HttpResponse(500, None, NoPayload)>>
    /\ poll.pc = "failed" /\ poll.fetches = 2

\* C11: protocol-shape errors are fatal.  Whenever initiateTransfer reads the
\* receipt of its burn, it returns a result only if the burn is mined and the
\* receipt holds a DepositForBurn log and a MessageSent log of the source
\* network's message transmitter, and the result's messageBytes are that log's
\* message; with either log absent it raises and leaves no result.
C11_ProtocolShapeErrorsAreFatal ==
    [][\A s \in DOMAIN calls : \A logs \in LogShapes :
          BurnWaitSettles(s, logs) =>
             LET bothFound == logs.depositForBurn /\ logs.messageSent = "transmitter"
                 mined == srcChain[calls[s].tx].state = "mined" IN
             /\ calls'[s].pc \in {"returned", "thrown"}
             /\ calls'[s].pc = "returned" =>
                   /\ bothFound /\ mined
                   /\ calls'[s].result[1].messageBytes = calls[s].tx
                   /\ calls'[s].result[1].messageHash = Keccak256(calls[s].tx)
             /\ ~bothFound => (calls'[s].pc = "thrown" /\ calls'[s].result = <<>>)
             /\ (mined /\ ~logs.depositForBurn) =>
                   calls'[s].error = "DepositForBurn event not found in transaction"
             /\ (/\ mined /\ logs.depositForBurn /\ logs.messageSent # "transmitter"
                 /\ HasAddress(registry.messageTransmitter, Config.sourceNetwork)) =>
                   calls'[s].error = "MessageSent event not found"]_vars

\* C11's case: the burn is mined, its receipt holds no MessageSent log of the
\* source transmitter, and initiateTransfer raised without a result.
C11_Witness ==
    /\ calls[1].op = "initiateTransfer" /\ calls[1].tx # 0 /\ Mined(calls[1].tx)
    /\ calls[1].pc = "thrown" /\ calls[1].error = "MessageSent event not found"
    /\ calls[1].result = <<>>

\* The transaction of invocation s was signed with a nonce its wallet has already
\* used on that chain.
NonceCollision(s) ==
    \/ calls[s].error = "NONCE_EXPIRED"
    \/ /\ calls[s].pc = "submit"
       /\ ~NonceFree(IF calls[s].op = "initiateTransfer" THEN srcChain ELSE dstChain,
                     calls[s].nonce)

\* C12: the client holds no lock around transaction submission.  While another
\* invocation is in flight (its transaction not yet submitted, or submitted and
\* unconfirmed) initiateTransfer and completeTransfer can still be called and
\* go to their submission, unless the caller itself serializes; and only when
\* the caller does not serialize is a transaction signed with a wallet nonce
\* already used.
C12_NoInternalLocking ==
    \A s \in DOMAIN calls :
        /\ (/\ client.constructed /\ caller.budget > 0 /\ ~caller.serial
            /\ ~InFlight(s))
           => /\ ENABLED (\E p \in ParamInputs : InvokeInitiate(s, p))
              /\ ENABLED InvokeComplete(s, [messageBytes |-> 0, attestation |-> NoPayload])
        /\ NonceCollision(s) => ~caller.serial

\* C12's case: the first burn is submitted and unconfirmed, and the second
\* initiateTransfer on the same client is at its submission, signed with the
\* same wallet nonce.
C12_Witness ==
    /\ calls[1].op = "initiateTransfer" /\ calls[1].pc = "wait"
    /\ srcChain[calls[1].tx].state = "pending"
    /\ calls[2].op = "initiateTransfer" /\ calls[2].pc = "submit"
    /\ calls[2].nonce = srcChain[calls[1].tx].nonce

ChainErrors == {"RPC_ERROR", "CALL_EXCEPTION", "NONCE_EXPIRED"}

CompleteInputs ==
    [messageBytes : 0..MaxBurns,
     attestation : {NoPayload} \cup {Attestation(m) : m \in 1..MaxBurns}]

SignatureMatches(body, signature, secret) ==
    /\ ~Falsy(signature)
    /\ ~Falsy(JsonStringify(body))
    /\ ToLowerCase(signature) = ToLowerCase(HmacSha256Hex(secret, JsonStringify(body)))

IsBytes32(b) == Len(b) = 66 /\ HasPrefix(b, <<"0", "x">>) /\ AllIn(b, 3, HexChars)

\* C15: addressToBytes32 returns exactly a 32-byte value, '0x' followed by 64
\* hex characters, for every address that validateAddress accepts on every
\* supported network, EVM and non-EVM alike (Solana addresses of 32 to 44
\* characters and Noble addresses included).
C15_CanonicalFormIs32Bytes ==
    (/\ util.fn = "addressToBytes32" /\ util.out # <<>>
     /\ util.args[2] \in SupportedNetworks
     /\ validateAddress(util.args[1], util.args[2])) => IsBytes32(util.out[1])

\* C16: for every supported EVM network N and every valid 20-byte address A,
\* addressToBytes32(A, N) is A's 20 bytes left-padded with 12 zero bytes, and
\* bytes32ToAddress of it on N equals A up to letter case.
C16_EvmRoundTrip ==
    /\ []((/\ util.fn = "addressToBytes32" /\ util.out # <<>>
           /\ util.args[2] \in EVM_NETWORKS /\ EvmRegexTest(util.args[1])) =>
             util.out[1] = (<<"0", "x">> \o Rep("0", 24))
                              \o ToLowerCase(SubSeq(util.args[1], 3, 42)))
    /\ [][(/\ Bytes32ToAddressCall
           /\ util.args[2] \in EVM_NETWORKS /\ EvmRegexTest(util.args[1])) =>
             ToLowerCase(util'.out[1]) = ToLowerCase(util.args[1])]_vars

C16_Witness ==
    /\ util.fn = "bytes32ToAddress" /\ util.args[2] = "base-sepolia"
    /\ util.args[1] = addressToBytes32(EvmChecksummed, "base-sepolia")
    /\ util.args[1] = (<<"0", "x">> \o Rep("0", 24)) \o SubSeq(EvmLower, 3, 42)
    /\ util.out = <<EvmLower>> /\ EvmLower # EvmChecksummed

\* C17: validateAddress never accepts an address for a network that is not a
\* supported network: for an unknown network identifier it returns false, for
\* every address.
C17_UnknownNetworkNeverAccepted ==
    (/\ util.fn = "validateAddress" /\ util.out # <<>>
     /\ util.args[2] \notin SupportedNetworks) => util.out[1] = FALSE

\* The amount is written as digits, optionally followed by a point and digits.
PlainDecimal(amount) ==
    LET parts == DecimalParts(amount) IN
    /\ amount # <<>> /\ Head(amount) \in Digits
    /\ amount = parts.int \o (IF parts.frac = <<>> THEN <<>> ELSE <<".">> \o parts.frac)

\* The amount as a normalized decimal string: no leading zeros, trailing zeros
\* of the fraction stripped, no point for a whole number.
NormalizedDecimal(amount) ==
    LET parts == DecimalParts(amount)
        whole == IF StripLeadingZeros(parts.int) = <<>> THEN <<"0">>
                 ELSE StripLeadingZeros(parts.int)
        fraction == StripTrailingZeros(parts.frac) IN
    IF fraction = <<>> THEN whole ELSE (whole \o <<".">>) \o fraction

\* C18: for every non-negative amount written with at most 6 decimal places,
\* fromRawAmount(toRawAmount(amount)) is the amount as a normalized decimal
\* string; toRawAmount('100.50') = '100500000', fromRawAmount('100500000') =
\* '100.5' and fromRawAmount('1') = '0.000001'.
C18_AmountRoundTrip ==
    /\ []((util.out # <<>> /\ util.fn = "toRawAmount"
             /\ util.args[1] = <<"1", "0", "0", ".", "5", "0">>) =>
           util.out[1] = Gives(<<"1", "0", "0", "5", "0", "0", "0", "0", "0">>))
    /\ []((util.out # <<>> /\ util.fn = "fromRawAmount"
             /\ util.args[1] = <<"1", "0", "0", "5", "0", "0", "0", "0", "0">>) =>
           util.out[1] = Gives(<<"1", "0", "0", ".", "5">>))
    /\ []((util.out # <<>> /\ util.fn = "fromRawAmount" /\ util.args[1] = <<"1">>) =>
           util.out[1] = Gives(<<"0", ".", "0", "0", "0", "0", "0", "1">>))
    /\ [][(/\ RoundTripCall
           /\ PlainDecimal(util.args[1])
           /\ Len(DecimalParts(util.args[1]).frac) <= STABLECOIN_DECIMALS) =>
             util'.out[1] = Gives(NormalizedDecimal(util.args[1]))]_vars

\* The integer nearest to amount x 10^6, a tie going away from zero, computed
\* on the decimal digits of the amount.
NearestRaw(amount) ==
    LET parts == DecimalParts(amount)
        kept == NatOfDecimal(parts.int \o SubSeq(parts.frac, 1, STABLECOIN_DECIMALS))
        up == /\ Len(parts.frac) > STABLECOIN_DECIMALS
              /\ parts.frac[STABLECOIN_DECIMALS + 1] \in {"5", "6", "7", "8", "9"}
        nearest == IF up THEN NatAdd(kept, <<1>>) ELSE kept IN
    (IF parts.neg /\ nearest # <<>> THEN <<"-">> ELSE <<>>) \o DecimalOfNat(nearest)

\* C19: toRawAmount applied to an amount with more than 6 decimal places returns
\* the integer nearest to amount x 10^6, never the truncated one, and a tie (a
\* 7th decimal digit of exactly 5 with nothing after it) is rounded away from
\* zero for positive and for negative amounts alike.
C19_RoundsToNearestTiesAwayFromZero ==
    (/\ util.fn = "toRawAmount" /\ util.out # <<>>
     /\ Len(DecimalParts(util.args[1]).frac) > STABLECOIN_DECIMALS) =>
        util.out[1] = Gives(NearestRaw(util.args[1]))

\* The pair is in the list getSupportedRoutes returned.
Listed(source, destination) ==
    \E route \in util.out[1] : route.source = source /\ destination \in route.destinations

InBothTables(network) ==
    network \in registry.tokenMessenger /\ network \in registry.messageTransmitter

\* C20: getSupportedRoutes lists a pair (source, destination) exactly when both
\* networks are present in both the token-messenger and the message-transmitter
\* address tables and the static route table allows source -> destination; no
\* listed pair has source = destination, none joins a mainnet with a testnet,
\* no source is listed without a destination, and every listed pair is accepted
\* by the CctpClient constructor.
C20_SupportedRoutes ==
    /\ []((util.fn = "getSupportedRoutes" /\ util.out # <<>>) =>
            /\ \A source \in RouteNetworkInputs, destination \in RouteNetworkInputs :
                  /\ Listed(source, destination) <=>
                        /\ InBothTables(source) /\ InBothTables(destination)
                        /\ \E i \in DOMAIN CCTP_ROUTES[IF source \in DOMAIN CCTP_ROUTES
                                                       THEN source ELSE "ethereum"] :
                              /\ source \in DOMAIN CCTP_ROUTES
                              /\ CCTP_ROUTES[source][i] = destination
                  /\ Listed(source, destination) =>
                        /\ source # destination
                        /\ (source \in TestnetNetworks) = (destination \in TestnetNetworks)
            /\ \A route \in util.out[1] :
                  /\ route.source \in RouteNetworkInputs
                  /\ route.destinations # {}
                  /\ route.destinations \subseteq RouteNetworkInputs)
    /\ [][\A source \in RouteNetworkInputs, destination \in RouteNetworkInputs,
             url \in RpcUrlInputs :
             (/\ ConstructOnRoute([sourceNetwork |-> source,
                                   destinationNetwork |-> destination,
                                   destinationRpcUrl |-> url])
              /\ Listed(source, destination)) =>
                (client'.constructed /\ client'.error = None)]_vars

C20_Witness ==
    /\ util.fn = "getSupportedRoutes" /\ util.out # <<>>
    /\ Listed("noble", "solana") /\ Listed("sepolia", "solana-devnet")
    /\ ~Listed("ethereum", "sepolia") /\ ~Listed("stellar", "ethereum")
    /\ Cardinality(util.out[1]) = 15
    /\ client.constructed
    /\ client.config[1].sourceNetwork = "noble" /\ client.config[1].destinationNetwork = "solana"

\* C21: the route relation has no self-routes and no unknown sources:
\* isRouteSupported(x, x) is false for every x, isRouteSupported(s, d) is false
\* whenever s is not a key of the route table, getSupportedDestinations(s) never
\* contains s, and isRouteSupported('ethereum', 'avalanche') is true.
C21_NoSelfRoutesNoUnknownSources ==
    /\ (util.fn = "isRouteSupported" /\ util.out # <<>>) =>
          /\ util.args[1] = util.args[2] => util.out[1] = "false"
          /\ util.args[1] \notin DOMAIN CCTP_ROUTES => util.out[1] = "false"
          /\ util.args = <<"ethereum", "avalanche">> => util.out[1] = "true"
    /\ (util.fn = "getSupportedDestinations" /\ util.out # <<>>) =>
          \A i \in DOMAIN util.out[1].items : util.out[1].items[i] # util.args[1]

\* The default host of the environment both networks of the route belong to.
RouteIsTestnet ==
    Config.sourceNetwork \in TestnetNetworks /\ Config.destinationNetwork \in TestnetNetworks

\* C22: every attestation query made through a CctpClient (getAttestation,
\* getTransferStatus, waitForAttestation) issues one request per fetch to the
\* environment-appropriate host: the testnet host exactly when the client's
\* route is a testnet route, the mainnet host otherwise, and the environment
\* chosen from the source network is also that of the destination network.
C22_EnvironmentHost ==
    util.fn \in {"getAttestation", "getTransferStatus", "waitForAttestation"} =>
        /\ \A i \in DOMAIN Requests(util.out) :
              Requests(util.out)[i].host =
                  IF RouteIsTestnet THEN ATTESTATION_SERVICE_URLS.testnet
                  ELSE ATTESTATION_SERVICE_URLS.mainnet
        /\ (Config.sourceNetwork \in TestnetNetworks)
              = (Config.destinationNetwork \in TestnetNetworks)
        /\ util.fn \in {"getAttestation", "getTransferStatus"} =>
              Len(Requests(util.out)) = 1
        /\ util.fn = "waitForAttestation" =>
              /\ Len(Requests(util.out)) = poll.fetches
              /\ Len(Requests(util.out)) = Len(poll.responses)
              /\ Len(Requests(util.out)) <= poll.maxAttempts

C22_Witness ==
    /\ util.fn = "waitForAttestation"
    /\ Config.sourceNetwork = "fuji" /\ Config.destinationNetwork = "solana-devnet"
    /\ poll.pc = "returned"
    /\ Len(Requests(util.out)) = 2
    /\ Requests(util.out)[2].host = ATTESTATION_SERVICE_URLS.testnet

\* C23: when the CCTP credential carries a custom attestation service URL,
\* every attestation query of the CCTP operations is sent to that URL instead
\* of the default mainnet/testnet host; when it is left empty the default host
\* is used.
C23_CustomAttestationUrl ==
    util.fn \in {"getAttestation", "getTransferStatus"} =>
        \A i \in DOMAIN Requests(util.out) :
            Requests(util.out)[i].host =
                IF util.args[1] # "" THEN util.args[1]
                ELSE IF RouteIsTestnet THEN ATTESTATION_SERVICE_URLS.testnet
                ELSE ATTESTATION_SERVICE_URLS.mainnet

\* C24: getTransferStatus passes the attestation status through unchanged and,
\* while the status is pending, reports as estimated remaining wait the static
\* average transfer time of the client's source network; once the status is
\* complete the estimate is 0.
C24_EstimateFromTransferTimes ==
    (util.fn = "getTransferStatus" /\ util.out[2].kind = "returned") =>
        LET response == util.args[3]
            status == IF response.code = 404 THEN "pending" ELSE response.status
            value == util.out[2].value[1] IN
        /\ value.attestationStatus = status
        /\ status = "pending" =>
              value.estimatedTime =
                  estimateTransferTime(Config.sourceNetwork, Config.destinationNetwork)
        /\ status = "complete" => value.estimatedTime = 0

\* C25: batchTransfer submits the transfers strictly in list order, each one
\* only after the previous one was confirmed, so at most one transfer of the
\* batch is in flight at any time; when transfer k fails no transfer after k is
\* submitted and the error propagates, and on success the result list has one
\* entry per input transfer in input order.
C25_BatchIsSequential ==
    /\ [](util.fn = "batchTransfer" =>
            LET transfers == util.args[1] IN
            /\ \A i \in DOMAIN srcChain :
                  /\ srcChain[i].item = i
                  /\ srcChain[i].to = transfers[i].to
                  /\ srcChain[i].amount = transfers[i].amount
                  /\ i < Len(srcChain) => srcChain[i].status = "mined"
            /\ Cardinality({i \in DOMAIN srcChain : srcChain[i].status = "pending"}) <= 1
            /\ calls[1].pc = "thrown" =>
                  /\ calls[1].error # None
                  /\ Len(srcChain) <= calls[1].tx
                  /\ Len(util.out) = calls[1].tx - 1
            /\ calls[1].pc = "returned" =>
                  /\ calls[1].result = <<util.out>>
                  /\ Len(util.out) = Len(transfers)
                  /\ Len(srcChain) = Len(transfers)
                  /\ \A i \in DOMAIN transfers :
                        /\ util.out[i].to = transfers[i].to
                        /\ util.out[i].amount = transfers[i].amount
                        /\ util.out[i].txHash = i)
    /\ [][calls[1].pc = "thrown" => UNCHANGED <<srcChain, calls, util>>]_vars

C25_Witness ==
    /\ util.fn = "batchTransfer" /\ Len(util.args[1]) = 3
    /\ calls[1].pc = "thrown" /\ calls[1].tx = 2 /\ calls[1].error = "CALL_EXCEPTION"
    /\ Len(srcChain) = 2 /\ srcChain[1].status = "mined" /\ srcChain[2].status = "reverted"
    /\ Len(util.out) = 1

\* C26: Circle.execute processes input items one at a time in input order:
\* with continueOnFail enabled it returns exactly one output entry per input
\* item, in input order, a failing item contributing an error entry paired to
\* its index and later items still being processed; with continueOnFail
\* disabled the first failing item aborts the run with an error carrying that
\* item's index and no later item is processed.
C26_ItemsInOrder ==
    /\ [](util.fn = "execute" =>
            LET length == util.args[1]
                continueOnFail == util.args[2]
                returnData == util.out IN
            /\ \A k \in DOMAIN srcChain : srcChain[k] = k - 1
            /\ continueOnFail =>
                  /\ calls[1].pc # "thrown"
                  /\ Len(returnData) = Len(srcChain)
                  /\ \A k \in DOMAIN returnData :
                        \/ returnData[k].json.result = <<k - 1>>
                        \/ /\ returnData[k].json.error # None
                           /\ returnData[k].pairedItem = k - 1
                  /\ calls[1].pc = "returned" =>
                        /\ Len(returnData) = length
                        /\ calls[1].result = <<<<returnData>>>>
            /\ ~continueOnFail =>
                  /\ \A k \in DOMAIN returnData :
                        returnData[k].json = [result |-> <<k - 1>>, error |-> None]
                  /\ calls[1].pc = "thrown" =>
                        /\ calls[1].failedIn = "NodeOperationError"
                        /\ calls[1].tx = Len(returnData)
                        /\ Len(srcChain) = calls[1].tx + 1
                  /\ calls[1].pc = "returned" => Len(returnData) = length)
    /\ [][calls[1].pc = "thrown" => UNCHANGED <<srcChain, calls, util>>]_vars

C26_Witness ==
    /\ util.fn = "execute" /\ util.args = <<3, TRUE>>
    /\ calls[1].pc = "returned"
    /\ Len(util.out) = 3
    /\ util.out[1].json.error = None
    /\ util.out[2].json.error = "Invalid amount" /\ util.out[2].pairedItem = 1
    /\ util.out[3].json.result = <<2>>

\* C27: the token bucket never lets more requests through than it has tokens
\* for: under any interleaving of concurrent calls on one client the token count
\* stays within [0, 100] and the number of requests sent never exceeds the
\* initial 100 tokens plus the tokens accrued by elapsed time at 100 per minute
\* (one third of a token per tick); callers that find the bucket empty are not
\* all released after a single wait.
C27_BucketBoundsRequests ==
    util.fn = "checkRateLimit" =>
        /\ util.rateLimiter.tokens >= 0
        /\ util.rateLimiter.tokens <= RATE_LIMITS.default * Thirds
        /\ util.sent * Thirds <= RATE_LIMITS.default * Thirds + util.now
        /\ \A p \in 1..MaxCallers, q \in 1..MaxCallers :
              (/\ p # q
               /\ calls[p].pc = "sent" /\ calls[p].waitTime > 0
               /\ calls[q].pc = "sent" /\ calls[q].waitTime > 0
               /\ calls[p].sentAt <= calls[q].sentAt) =>
                  calls[q].sentAt - calls[p].sentAt >= 1 * Thirds

\* C29: in every state reached by any sequence of the trigger's checkExists,
\* create and delete hooks, a webhookId present in the node's static data
\* identifies a subscription that is currently registered at Circle for this
\* node's webhook URL; after a delete that returned true no subscription
\* created by this node remains registered, and a delete issued when no id is
\* stored makes no remote call and returns true.
C29_StoredIdIsRegistered ==
    /\ [](/\ util.webhookId # 0 => util.webhookId \in util.subscriptions
          /\ (util.fn = "delete" /\ util.out = <<TRUE>>) =>
                util.created \cap util.subscriptions = {})
    /\ [][\A outcome \in {"ok", "error"} :
             (DeleteHook(outcome) /\ util.webhookId = 0) =>
                (util'.remoteCalls = util.remoteCalls /\ util'.out = <<TRUE>>)]_vars

\* C28: isBlacklisted returns false only when the token contract reported the
\* address as not blacklisted: when the contract call fails the failure is
\* surfaced to the caller, and the Check Blacklist / Check Address operations
\* never report isBlacklisted: false for an address whose status could not be
\* read.
C28_FalseOnlyWhenReported ==
    (util.fn \in {"isBlacklisted", "checkBlacklist", "checkAddress"} /\ util.out # <<>>) =>
        LET read == contractIsBlacklisted(util.args[1], util.args[2], util.args[3],
                                          util.args[4], util.args[5])
            reportedFalse == /\ util.out[1].error = None
                             /\ IF util.fn = "isBlacklisted"
                                THEN util.out[1].value = FALSE
                                ELSE util.out[1].value.isBlacklisted = FALSE IN
        /\ reportedFalse => (read.error = None /\ read.value = FALSE)
        /\ read.error # None => util.out[1].error = read.error

\* C30: every (resource, operation) pair that the Circle node offers in its
\* operation lists is dispatched by execute to a handler that implements it:
\* no offered pair ends in an 'Unknown ... operation' error or in an empty
\* result produced without running any handler.
C30_OfferedIsHandled ==
    (/\ util.fn = "execute" /\ Len(util.args) = 2 /\ util.out # <<>>
     /\ util.args[1] \in DOMAIN OperationLists
     /\ util.args[2] \in OperationLists[util.args[1]]) =>
        (util.out[1].handler # None /\ util.out[1].error = None)

====
